---- MODULE Spec2Model ----
(***************************************************************************)
(* A model of the retrieval-and-consensus engine of pf-rater:              *)
(*   utils/ratings.py          the rating normaliser                       *)
(*   services/fact_sources.py  consensus analysis and multi-source fusion  *)
(*   retrieval/search.py       the archive search                          *)
(*                                                                         *)
(* Python strings are sequences of one-character strings, so that          *)
(* lower(), strip(), re.sub and the `in` substring test are computed on    *)
(* the characters.  Python's None is a distinguished value of each type.   *)
(***************************************************************************)
EXTENDS Integers, Sequences, FiniteSets, TLC

VARIABLES
    pc,             \* position of the main thread: "call" or "start" before, "return" after
    rating,         \* standardize_rating: the raw rating passed in
    score,          \* standardize_rating: the value returned
    sources_data,   \* analyze_consensus: the list of source groups passed in
    consensus,      \* analyze_consensus: the report returned
    request,        \* get_multi_source_analysis: [query, google_api_key]
    archive,        \* get_multi_source_analysis: the rows of metadata
    pf_future,      \* the task running search_politifact_db
    google_future,  \* the task running enhanced_google_factcheck_search
    args,           \* the arguments of the function called, for the other functions
    returned,       \* what that function returned
    _openai_client, \* clients.py: the module-level client
    callers         \* clients.py: the threads calling get_openai

vars == << pc, rating, score, sources_data, consensus,
           request, archive, pf_future, google_future,
           args, returned, _openai_client, callers >>

\* the variables of the other functions
aside == << args, returned, _openai_client, callers >>

(***************************************************************************)
(* Strings                                                                 *)
(***************************************************************************)
\* None where a str is expected (a one-element sequence that is no character)
NoneStr == << "<None>" >>

UpperChars == << "A","B","C","D","E","F","G","H","I","J","K","L","M",
                 "N","O","P","Q","R","S","T","U","V","W","X","Y","Z" >>
LowerChars == << "a","b","c","d","e","f","g","h","i","j","k","l","m",
                 "n","o","p","q","r","s","t","u","v","w","x","y","z" >>

Whitespace == { " ", "\t", "\n" }

\* str.lower() on one character
LowerChar(c) ==
    IF c \in { UpperChars[i] : i \in 1..Len(UpperChars) }
    THEN LowerChars[CHOOSE i \in 1..Len(UpperChars) : UpperChars[i] = c]
    ELSE c

\* str.lower()
Lower(s) == [i \in 1..Len(s) |-> LowerChar(s[i])]

\* str.lstrip() and str.rstrip()
RECURSIVE LStrip(_)
LStrip(s) == IF s # << >> /\ Head(s) \in Whitespace THEN LStrip(Tail(s)) ELSE s

RECURSIVE RStrip(_)
RStrip(s) ==
    IF s # << >> /\ s[Len(s)] \in Whitespace THEN RStrip(SubSeq(s, 1, Len(s) - 1)) ELSE s

\* str.strip(): leading and trailing whitespace removed
Strip(s) == RStrip(LStrip(s))

\* re.sub(r"[...]", "", s): every character of the class removed
RemoveChars(s, class) == SelectSeq(s, LAMBDA c : c \notin class)

\* Python's `k in r` on strings: k occurs in r as a contiguous substring
Contains(k, r) ==
    \/ k = << >>
    \/ \E i \in 1..(Len(r) - Len(k) + 1) : r[i] = k[1] /\ SubSeq(r, i, i + Len(k) - 1) = k

\* concatenation of a sequence of strings
RECURSIVE Concat(_)
Concat(ss) == IF ss = << >> THEN << >> ELSE Head(ss) \o Concat(Tail(ss))

(***************************************************************************)
(* utils/ratings.py                                                        *)
(***************************************************************************)
POLITIFACT_MAP ==
    << [key |-> <<"t","r","u","e">>, value |-> 5],
       [key |-> <<"m","o","s","t","l","y"," ","t","r","u","e">>, value |-> 4],
       [key |-> <<"h","a","l","f"," ","t","r","u","e">>, value |-> 3],
       [key |-> <<"h","a","l","f","-","t","r","u","e">>, value |-> 3],
       [key |-> <<"m","o","s","t","l","y"," ","f","a","l","s","e">>, value |-> 2],
       [key |-> <<"f","a","l","s","e">>, value |-> 1],
       [key |-> <<"p","a","n","t","s"," ","o","n"," ","f","i","r","e">>, value |-> 0] >>

GENERIC_MAP ==
    << [key |-> <<"a","c","c","u","r","a","t","e">>, value |-> 5],
       [key |-> <<"c","o","r","r","e","c","t">>, value |-> 5],
       [key |-> <<"s","u","p","p","o","r","t","e","d">>, value |-> 4],
       [key |-> <<"m","i","x","t","u","r","e">>, value |-> 3],
       [key |-> <<"m","i","x","e","d">>, value |-> 3],
       [key |-> <<"p","a","r","t","l","y"," ","f","a","l","s","e">>, value |-> 3],
       [key |-> <<"u","n","p","r","o","v","e","n">>, value |-> 3],
       [key |-> <<"m","i","s","s","i","n","g"," ","c","o","n","t","e","x","t">>, value |-> 3],
       [key |-> <<"m","i","s","l","e","a","d","i","n","g">>, value |-> 2],
       [key |-> <<"i","n","c","o","r","r","e","c","t">>, value |-> 1],
       [key |-> <<"u","n","s","u","p","p","o","r","t","e","d">>, value |-> 1],
       [key |-> <<"n","o"," ","e","v","i","d","e","n","c","e">>, value |-> 1],
       [key |-> <<"f","a","k","e">>, value |-> 1] >>

\* {**POLITIFACT_MAP, **GENERIC_MAP}.items(): the two tables share no key, so
\* the merged dict iterates the primary table's items, then the generic ones
MergedMap == POLITIFACT_MAP \o GENERIC_MAP

\* None where an int is expected (standardize_rating's "unscored")
NoneScore == -1

PunctClass == { "!", "?", "." }

normalize_rating_text(r) ==
    IF r = NoneStr THEN << >> ELSE RemoveChars(Strip(Lower(r)), PunctClass)

\* as normalize_rating_text, without the lowercasing
normalize_rating_text_nolower(r) ==
    IF r = NoneStr THEN << >> ELSE RemoveChars(Strip(r), PunctClass)

\* the value of the first item of table m whose key occurs in r, else None
FirstMatch(m, r) ==
    LET hits == { i \in 1..Len(m) : Contains(m[i].key, r) }
    IN  IF hits = {} THEN NoneScore
        ELSE m[CHOOSE i \in hits : \A j \in hits : i <= j].value

\* as standardize_rating, consulting the primary table only
standardize_rating_primary_only(r) == FirstMatch(POLITIFACT_MAP, normalize_rating_text(r))

standardize_rating(r) == FirstMatch(MergedMap, normalize_rating_text(r))

(***************************************************************************)
(* Inputs of the rating normaliser: None, and the concatenations of up to  *)
(* MaxPieces pieces (every table key, and fragments that capitalise,       *)
(* punctuate, pad, negate or garble a rating)                              *)
(***************************************************************************)
MaxPieces == 2

TableKeys == { MergedMap[i].key : i \in 1..Len(MergedMap) }

Fragments ==
    { <<"M","o","s","t","l","y"," ","F","a","l","s","e">>,
      <<"z","z","z","-","u","n","r","a","t","e","d","-","z","z","z">>,
      <<"P","a","n","t","s"," ","o","n"," ","F","i","r","e","!">>,
      <<"N","o"," ","r","a","t","i","n","g">>,
      <<"(","P","a","r","t","i","a","l","l","y"," ","C","o","r","r","e","c","t",")">>,
      <<"T","R","U","E">>,
      <<"i","n">>,
      <<" ">>, <<"!">>, <<"?">>, <<".">> }

Pieces == TableKeys \cup Fragments

\* the raw ratings of the results analyze_consensus is given: scoring 0, 1, 3
\* and 5, and None (unscorable)
RATING_PANTS   == <<"P","a","n","t","s"," ","o","n"," ","F","i","r","e","!">>
RATING_FALSE   == <<"F","a","l","s","e">>
RATING_MIXTURE == <<"M","i","x","t","u","r","e">>
RATING_TRUE    == <<"T","r","u","e">>

EnumeratedRatings == { RATING_PANTS, RATING_FALSE, RATING_MIXTURE, NoneStr }

ConsensusRatings == EnumeratedRatings \cup { RATING_TRUE }

\* standardize_rating on a result's rating (tabulated once: the table's value
\* at r is standardize_rating(r))
ScoreTable == [r \in ConsensusRatings |-> standardize_rating(r)]
RatingScore(r) == IF r \in DOMAIN ScoreTable THEN ScoreTable[r] ELSE standardize_rating(r)

(***************************************************************************)
(* Exact arithmetic.  Python floats are modelled by exact rationals        *)
(* [num, den] (den > 0, lowest terms); IEEE rounding is not modelled.      *)
(* consensus_level = max(0, 1 - std/2.5) is irrational in general: it is   *)
(* the real max(0, 1 - sqrt(w)) with w = std^2 / 2.5^2 rational, and the   *)
(* model stores it as [one_minus_sqrt |-> min(w, 1)], which determines it. *)
(***************************************************************************)
RECURSIVE GCD(_, _)
GCD(a, b) == IF b = 0 THEN a ELSE GCD(b, a % b)

Abs(x) == IF x < 0 THEN -x ELSE x

\* the rational n/d (d > 0) in lowest terms
Rat(n, d) == LET g == GCD(Abs(n), d) IN [num |-> n \div g, den |-> d \div g]

RatMul(a, b) == Rat(a.num * b.num, a.den * b.den)
RatDiv(a, b) == Rat(a.num * b.den, a.den * b.num)
RatSub(a, b) == Rat(a.num * b.den - b.num * a.den, a.den * b.den)
RatAbs(a)    == [num |-> Abs(a.num), den |-> a.den]
RatLess(a, b) == a.num * b.den < b.num * a.den

\* None where a float is expected
NoneFloat == [num |-> 0, den |-> 0]

\* the real max(0, 1 - sqrt(w)), for a rational w >= 0
MaxZeroOneMinusSqrt(w) ==
    [one_minus_sqrt |-> IF RatLess(Rat(1, 1), w) THEN Rat(1, 1) ELSE w]

\* as MaxZeroOneMinusSqrt, without the max(0, .)
OneMinusSqrtUnclipped(w) == [one_minus_sqrt |-> w]

\* the int 0 and the float 1.0 as such reals
RealZero == MaxZeroOneMinusSqrt(Rat(1, 1))
RealOne  == MaxZeroOneMinusSqrt(Rat(0, 1))

\* x > t, for x = max(0, 1 - sqrt(w)) and a rational 0 <= t <= 1:
\* 1 - sqrt(w) > t  iff  w < (1 - t)^2
RealGreater(x, t) ==
    LET u == RatSub(Rat(1, 1), t) IN RatLess(x.one_minus_sqrt, RatMul(u, u))

\* x >= t, likewise
RealGreaterEq(x, t) ==
    LET u == RatSub(Rat(1, 1), t) IN ~ RatLess(RatMul(u, u), x.one_minus_sqrt)

(***************************************************************************)
(* services/fact_sources.py: analyze_consensus                             *)
(***************************************************************************)
\* Python truthiness of a str-or-None
Truthy(s) == s # NoneStr /\ s # << >>

UnknownName == <<"U","n","k","n","o","w","n">>

\* res.get("publisher") or res.get("source") or "Unknown"
PublisherName(res) ==
    IF Truthy(res.publisher) THEN res.publisher
    ELSE IF Truthy(res.source) THEN res.source
    ELSE UnknownName

\* as PublisherName, without the fallback to "source"
PublisherNameNoSource(res) ==
    IF Truthy(res.publisher) THEN res.publisher ELSE UnknownName

\* the results of all groups, in group-then-result order
RECURSIVE FlattenResults(_)
FlattenResults(sd) ==
    IF sd = << >> THEN << >>
    ELSE Head(sd).results \o FlattenResults(Tail(sd))

RECURSIVE SumSeq(_)
SumSeq(xs) == IF xs = << >> THEN 0 ELSE Head(xs) + SumSeq(Tail(xs))

\* as DictSet, keeping the value an existing key already has
DictSetDefault(d, name, value) ==
    IF \E i \in 1..Len(d) : d[i].key = name THEN d
    ELSE Append(d, [key |-> name, value |-> value])

\* dict[name] = value on an insertion-ordered dict kept as a sequence of items
DictSet(d, name, value) ==
    IF \E i \in 1..Len(d) : d[i].key = name
    THEN [i \in 1..Len(d) |-> IF d[i].key = name THEN [key |-> name, value |-> value] ELSE d[i]]
    ELSE Append(d, [key |-> name, value |-> value])

\* the loop of lines 158-164: (ratings, source_ratings) over the flattened results
RECURSIVE CollectRatings(_, _, _)
CollectRatings(results, ratings, source_ratings) ==
    IF results = << >> THEN [ratings |-> ratings, source_ratings |-> source_ratings]
    ELSE LET res == Head(results)
             sc  == RatingScore(res.rating)
         IN  IF sc # NoneScore
             THEN CollectRatings(Tail(results), Append(ratings, sc),
                                 DictSet(source_ratings, PublisherName(res), sc))
             ELSE CollectRatings(Tail(results), ratings, source_ratings)

\* float(arr.mean())
Mean(xs) == Rat(SumSeq(xs), Len(xs))

\* the sample variance (ddof = 1) instead of the population variance
SampleVariance(xs) ==
    LET n == Len(xs)
        s == SumSeq(xs)
        q == SumSeq([i \in 1..n |-> xs[i] * xs[i]])
    IN  Rat(n * q - s * s, n * (n - 1))

\* arr.std() squared: numpy's population variance, mean(abs(x - x.mean())**2),
\* which is (n * sum(x^2) - sum(x)^2) / n^2
PopVariance(xs) ==
    LET n == Len(xs)
        s == SumSeq(xs)
        q == SumSeq([i \in 1..n |-> xs[i] * xs[i]])
    IN  Rat(n * q - s * s, n * n)

\* a scale of 2.0 instead of 2.5
STD_SCALE_TWO == Rat(2, 1)

\* the 2.5 of max(0.0, 1.0 - (std / 2.5))
STD_SCALE == Rat(5, 2)

\* the default of outlier_delta
OUTLIER_DELTA == Rat(3, 2)

\* the thresholds of the agreement label
STRONG_ABOVE   == Rat(4, 5)
MODERATE_ABOVE == Rat(3, 5)
SOME_ABOVE     == Rat(2, 5)

Digits == << "0", "1", "2", "3", "4", "5" >>

\* f"{src} ({r})"
OutlierText(src, r) == src \o << " ", "(" >> \o << Digits[r + 1] >> \o << ")" >>

\* as Outliers, with >= for >
OutliersNonStrict(source_ratings, avg, outlier_delta) ==
    LET far == SelectSeq(source_ratings,
                   LAMBDA it : ~ RatLess(RatAbs(RatSub(Rat(it.value, 1), avg)), outlier_delta))
    IN  [i \in 1..Len(far) |-> OutlierText(far[i].key, far[i].value)]

\* lines 176-179
Outliers(source_ratings, avg, outlier_delta) ==
    LET far == SelectSeq(source_ratings,
                   LAMBDA it : RatLess(outlier_delta, RatAbs(RatSub(Rat(it.value, 1), avg))))
    IN  [i \in 1..Len(far) |-> OutlierText(far[i].key, far[i].value)]

\* as Agreement, with >= for >
AgreementNonStrict(consensus_level) ==
    IF RealGreaterEq(consensus_level, STRONG_ABOVE) THEN "Strong consensus"
    ELSE IF RealGreaterEq(consensus_level, MODERATE_ABOVE) THEN "Moderate agreement"
    ELSE IF RealGreaterEq(consensus_level, SOME_ABOVE) THEN "Some disagreement"
    ELSE "Significant disagreement"

\* lines 181-188
Agreement(consensus_level) ==
    IF RealGreater(consensus_level, STRONG_ABOVE) THEN "Strong consensus"
    ELSE IF RealGreater(consensus_level, MODERATE_ABOVE) THEN "Moderate agreement"
    ELSE IF RealGreater(consensus_level, SOME_ABOVE) THEN "Some disagreement"
    ELSE "Significant disagreement"

\* line 153
NoDataReport ==
    [consensus_level |-> RealZero, average_rating |-> NoneFloat,
     agreement |-> "No data", outliers |-> << >>, source_count |-> 0]

\* as NoRatingsReport, counting the results instead of the groups
NoRatingsReportCountingResults(sd) ==
    [consensus_level |-> RealZero, average_rating |-> NoneFloat,
     agreement |-> "No standardizable ratings", outliers |-> << >>,
     source_count |-> Len(FlattenResults(sd))]

\* line 167
NoRatingsReport(sd) ==
    [consensus_level |-> RealZero, average_rating |-> NoneFloat,
     agreement |-> "No standardizable ratings", outliers |-> << >>,
     source_count |-> Len(sd)]

\* lines 169-197, c the (ratings, source_ratings) collected
ScoredReport(c, outlier_delta) ==
    LET avg    == Mean(c.ratings)
        std_sq == IF Len(c.ratings) > 1 THEN PopVariance(c.ratings) ELSE Rat(0, 1)
        consensus_level ==
            MaxZeroOneMinusSqrt(RatDiv(std_sq, RatMul(STD_SCALE, STD_SCALE)))
    IN  [consensus_level |-> consensus_level,
         average_rating  |-> avg,
         agreement       |-> Agreement(consensus_level),
         outliers        |-> Outliers(c.source_ratings, avg, outlier_delta),
         source_count    |-> Len(c.source_ratings),
         source_ratings  |-> c.source_ratings]

\* as analyze_consensus, without the early return on an empty list
analyze_consensus_unguarded(sd, outlier_delta) ==
    LET c == CollectRatings(FlattenResults(sd), << >>, << >>)
    IN  IF c.ratings = << >> THEN NoRatingsReport(sd)
        ELSE ScoredReport(c, outlier_delta)

analyze_consensus(sd, outlier_delta) ==
    IF sd = << >> THEN NoDataReport
    ELSE LET c == CollectRatings(FlattenResults(sd), << >>, << >>)
         IN  IF c.ratings = << >> THEN NoRatingsReport(sd)
             ELSE ScoredReport(c, outlier_delta)

(***************************************************************************)
(* retrieval/search.py: search_politifact_db                               *)
(*                                                                         *)
(* The archive `metadata` is a sequence of rows [claim, explanation,       *)
(* verdict, url].  The embedding call and the FAISS search are outside the *)
(* repository: the embedding either raises or not, and the search answers  *)
(* with `hits`, TOP_K entries [row, sim] (sim the similarity the distance  *)
(* maps to).                                                               *)
(***************************************************************************)
\* FLAGS.TOP_K, read from the environment (25 when unset)
TOP_K == 2

\* explanations are cut to 500 characters, then "..." is appended
EXPLANATION_MAX == 500

\* boost_rows.head(10)
BOOST_MAX == 10

\* len(w) > 3
KEYWORD_MIN == 3

POLITIFACT      == <<"P","o","l","i","t","i","F","a","c","t">>
KEYWORD_MATCH   == <<"P","o","l","i","t","i","F","a","c","t"," ","(","K","e","y","w","o","r","d"," ","M","a","t","c","h",")">>
MULTI_SOURCE    == <<"M","u","l","t","i","-","S","o","u","r","c","e">>

GROUP_NAMES == << "PolitiFact Database", "Recent PolitiFact (via Google)",
                  "External Sources (via Google)" >>

\* the similarity_score of a keyword match
BOOST_SIM == Rat(99, 100)

\* the FAISS answers for an archive of n > 0 rows: the TOP_K nearest rows, each
\* once; an index of fewer than TOP_K vectors pads with -1, which
\* metadata.iloc reads as the last row
IndexAnswers(n, sims) ==
    { h \in [1..TOP_K -> [row : 1..n, sim : sims]] :
        /\ \A i, j \in 1..TOP_K : (i < j /\ j <= n) => h[i].row # h[j].row
        /\ \A i \in 1..TOP_K : i > n => h[i].row = n }

\* explanation[:500] + "..." when longer than 500
Truncated(explanation) ==
    IF Len(explanation) > EXPLANATION_MAX
    THEN SubSeq(explanation, 1, EXPLANATION_MAX) \o << ".", ".", "." >>
    ELSE explanation

\* lines 39-54: one result per hit, in rank order
VectorResults(hits, metadata) ==
    [i \in 1..Len(hits) |->
        LET row == metadata[hits[i].row]
        IN  [source |-> POLITIFACT, publisher |-> POLITIFACT,
             claim |-> row.claim, rating |-> row.verdict,
             explanation |-> Truncated(row.explanation),
             url |-> row.url, similarity_score |-> hits[i].sim]]

\* str.split(): the maximal runs of non-whitespace characters
RECURSIVE SplitWords(_, _, _)
SplitWords(s, word, words) ==
    IF s = << >> THEN (IF word = << >> THEN words ELSE Append(words, word))
    ELSE IF Head(s) \in Whitespace
         THEN SplitWords(Tail(s), << >>, IF word = << >> THEN words ELSE Append(words, word))
         ELSE SplitWords(Tail(s), Append(word, Head(s)), words)

\* str.strip(chars)
RECURSIVE LStripChars(_, _)
LStripChars(s, chars) ==
    IF s # << >> /\ Head(s) \in chars THEN LStripChars(Tail(s), chars) ELSE s

RECURSIVE RStripChars(_, _)
RStripChars(s, chars) ==
    IF s # << >> /\ s[Len(s)] \in chars THEN RStripChars(SubSeq(s, 1, Len(s) - 1), chars) ELSE s

StripChars(s, chars) == RStripChars(LStripChars(s, chars), chars)

\* w.strip("?,.!\"'")
TOKEN_STRIP == { "?", ",", ".", "!", "\"", "'" }

IGNORE ==
    { <<"W","h","a","t">>, <<"W","h","e","n">>, <<"W","h","e","r","e">>,
      <<"W","h","i","c","h">>, <<"T","h","i","s">>, <<"T","h","a","t">>,
      <<"T","h","e","r","e">>, <<"H","e","r","e">>, <<"D","o","e","s">>,
      <<"I","s">>, <<"A","r","e">>, <<"C","a","n">>, <<"C","o","u","l","d">>,
      <<"S","h","o","u","l","d">>, <<"W","o","u","l","d">> }

\* str.isupper() on one character
IsUpperChar(c) == c \in { UpperChars[i] : i \in 1..Len(UpperChars) }

\* lines 68-69
Keywords(query) ==
    LET words  == SplitWords(query, << >>, << >>)
        tokens == [i \in 1..Len(words) |-> StripChars(words[i], TOKEN_STRIP)]
    IN  SelectSeq(tokens, LAMBDA w : /\ w # << >>
                                     /\ IsUpperChar(w[1])
                                     /\ Len(w) > KEYWORD_MIN
                                     /\ w \notin IGNORE)

\* as Keywords, without the stoplist
KeywordsNoStoplist(query) ==
    LET words  == SplitWords(query, << >>, << >>)
        tokens == [i \in 1..Len(words) |-> StripChars(words[i], TOKEN_STRIP)]
    IN  SelectSeq(tokens, LAMBDA w : /\ w # << >>
                                     /\ IsUpperChar(w[1])
                                     /\ Len(w) > KEYWORD_MIN)

\* as RowMatches, a single keyword sufficing
RowMatchesAny(row, keywords) ==
    LET text == Lower(row.claim \o << " " >> \o row.explanation)
    IN  \E i \in 1..Len(keywords) : Contains(Lower(keywords[i]), text)

\* lines 78-82: the row's claim + " " + explanation, lowercased, contains every
\* keyword lowercased
RowMatches(row, keywords) ==
    LET text == Lower(row.claim \o << " " >> \o row.explanation)
    IN  \A i \in 1..Len(keywords) : Contains(Lower(keywords[i]), text)

\* lines 95-103
BoostEntry(row) ==
    [source |-> KEYWORD_MATCH, publisher |-> POLITIFACT,
     claim |-> row.claim, rating |-> row.verdict,
     explanation |-> Truncated(row.explanation),
     url |-> row.url, similarity_score |-> BOOST_SIM]

\* the reverse of a sequence
Reversed(xs) == [i \in 1..Len(xs) |-> xs[Len(xs) + 1 - i]]

\* as Boosted, appending the keyword matches (results.append) instead of
\* inserting each at the front
BoostedAppended(query, metadata, results) ==
    LET keywords == Keywords(query)
    IN  IF keywords = << >> THEN results
        ELSE LET rows == SelectSeq(metadata, LAMBDA row : RowMatches(row, keywords))
                 head == SubSeq(rows, 1, IF Len(rows) < BOOST_MAX THEN Len(rows) ELSE BOOST_MAX)
             IN  results \o [i \in 1..Len(head) |-> BoostEntry(head[i])]

\* lines 71-105: the first BOOST_MAX matching rows, each inserted at position 0
\* of results in turn (the last inserted comes first)
\* (on rows whose claim and explanation are strings the pandas operations of
\* lines 78-105 do not fail, and the except clause of lines 106-108 is not
\* entered)
Boosted(query, metadata, results) ==
    LET keywords == Keywords(query)
    IN  IF keywords = << >> THEN results
        ELSE LET rows == SelectSeq(metadata, LAMBDA row : RowMatches(row, keywords))
                 head == SubSeq(rows, 1, IF Len(rows) < BOOST_MAX THEN Len(rows) ELSE BOOST_MAX)
             IN  Reversed([i \in 1..Len(head) |-> BoostEntry(head[i])]) \o results

\* as DedupByUrl, keeping the results without a url
RECURSIVE DedupKeepingEmptyUrl(_, _)
DedupKeepingEmptyUrl(results, seen) ==
    IF results = << >> THEN << >>
    ELSE LET r == Head(results)
         IN  IF r.url \in seen
             THEN DedupKeepingEmptyUrl(Tail(results), seen)
             ELSE << r >> \o DedupKeepingEmptyUrl(Tail(results), seen \cup { r.url })

\* as DedupByUrl, adding the url to `seen` before looking it up
RECURSIVE DedupAddingBeforeTest(_, _)
DedupAddingBeforeTest(results, seen) ==
    IF results = << >> THEN << >>
    ELSE LET r == Head(results)
             added == seen \cup { r.url }
         IN  IF ~ Truthy(r.url) \/ r.url \in added
             THEN DedupAddingBeforeTest(Tail(results), added)
             ELSE << r >> \o DedupAddingBeforeTest(Tail(results), added)

\* lines 112-117 (and fact_sources.py 136-144 without the relevance test): the
\* results with a truthy url not seen before, in order
RECURSIVE DedupByUrl(_, _)
DedupByUrl(results, seen) ==
    IF results = << >> THEN << >>
    ELSE LET r == Head(results)
         IN  IF ~ Truthy(r.url) \/ r.url \in seen
             THEN DedupByUrl(Tail(results), seen)
             ELSE << r >> \o DedupByUrl(Tail(results), seen \cup { r.url })

\* lines 32-119, after the embedding has been obtained
search_politifact_db(query, hits, metadata) ==
    [source_name |-> GROUP_NAMES[1],
     results     |-> DedupByUrl(Boosted(query, metadata, VectorResults(hits, metadata)), { })]

(***************************************************************************)
(* services/fact_sources.py: the external fact-check search                *)
(*                                                                         *)
(* The claim/term extraction (a generative model) and the Fact Check API   *)
(* are outside the repository: an extraction answers with (claims, terms), *)
(* ([], []) on any error; an API call answers with an outcome that is an   *)
(* exception, a status other than 200, or a body of reviews.               *)
(***************************************************************************)
\* the default of max_results
MAX_RESULTS == 5

\* per claim sub-query, and per term sub-query
CLAIM_RESULTS == 3
TERM_RESULTS  == 2

\* (claims or [])[:3] and (terms or [])[:3]
SUBQUERY_MAX == 3

\* len(p) >= 3
TERM_MIN == 3

\* uniq[:20] and combined[:30]
FALLBACK_MAX == 20
DYNAMIC_MAX  == 30

\* the separators of re.split(r"[\s/,\-\(\)\[\]:;]+", ...)
SEPARATORS == Whitespace \cup { "/", ",", "-", "(", ")", "[", "]", ":", ";" }

\* the non-empty pieces of s between runs of separator characters
RECURSIVE SplitOn(_, _, _, _)
SplitOn(s, seps, word, words) ==
    IF s = << >> THEN (IF word = << >> THEN words ELSE Append(words, word))
    ELSE IF Head(s) \in seps
         THEN SplitOn(Tail(s), seps, << >>, IF word = << >> THEN words ELSE Append(words, word))
         ELSE SplitOn(Tail(s), seps, Append(word, Head(s)), words)

\* xs[:n]
Prefix(xs, n) == SubSeq(xs, 1, IF Len(xs) < n THEN Len(xs) ELSE n)

\* the elements of xs that pass `keep` and have not occurred before, in order
RECURSIVE UniqueInOrder(_, _)
UniqueInOrder(xs, out) ==
    IF xs = << >> THEN out
    ELSE IF \E i \in 1..Len(out) : out[i] = Head(xs)
         THEN UniqueInOrder(Tail(xs), out)
         ELSE UniqueInOrder(Tail(xs), Append(out, Head(xs)))

\* lines 14-26
_normalize_terms(terms) ==
    LET truthy == SelectSeq(terms, LAMBDA t : Truthy(t))
        parts  == Concat([i \in 1..Len(truthy) |->
                              SplitOn(Strip(Lower(truthy[i])), SEPARATORS, << >>, << >>)])
    IN  UniqueInOrder(SelectSeq(parts, LAMBDA w : Len(w) >= TERM_MIN), << >>)

STOP ==
    { <<"t","h","e">>, <<"a","n","d">>, <<"f","o","r">>, <<"w","i","t","h">>,
      <<"t","h","a","t">>, <<"t","h","i","s">>, <<"f","r","o","m">>,
      <<"i","n","t","o">>, <<"o","n","t","o">>, <<"a","r","e">>,
      <<"w","a","s">>, <<"w","e","r","e">>, <<"b","e","e","n">>,
      <<"t","h","e","i","r">>, <<"t","h","e","y">>, <<"t","h","e","m">>,
      <<"h","e","r">>, <<"h","i","s">>, <<"y","o","u">>, <<"y","o","u","r">>,
      <<"a","b","o","u","t">>, <<"o","v","e","r">>, <<"u","n","d","e","r">>,
      <<"v","i","a">>, <<"o","u","t">>, <<"n","o","t">>, <<"h","a","v","e">>,
      <<"h","a","s">>, <<"h","a","d">>, <<"b","u","t">>, <<"w","h","o">>,
      <<"w","h","a","t">>, <<"w","h","e","n">>, <<"w","h","e","r","e">>,
      <<"w","h","y">>, <<"h","o","w">>, <<"w","i","l","l">>,
      <<"w","o","u","l","d">>, <<"c","o","u","l","d">>,
      <<"s","h","o","u","l","d">>, <<"m","a","y">>, <<"m","i","g","h","t">>,
      <<"m","o","r","e">>, <<"l","e","s","s">>, <<"v","e","r","y">>,
      <<"a","l","s","o">>, <<"t","h","a","n">>, <<"t","h","e","n">> }

\* lines 29-46
_fallback_terms_from_query(query) ==
    LET parts == SplitOn(Lower(query), SEPARATORS, << >>, << >>)
        terms == SelectSeq(parts, LAMBDA w : Len(w) >= TERM_MIN /\ w \notin STOP)
    IN  Prefix(UniqueInOrder(terms, << >>), FALLBACK_MAX)

\* lines 49-57, `extraction` the answer of extract_key_terms_and_claims(query)
_build_dynamic_terms(query, extraction) ==
    LET extracted == _normalize_terms(extraction.terms \o extraction.claims)
        fallback  == _fallback_terms_from_query(query)
        fresh     == SelectSeq(fallback, LAMBDA t : \A i \in 1..Len(extracted) : extracted[i] # t)
    IN  Prefix(extracted \o fresh, DYNAMIC_MAX)

\* `x or ""`
OrEmpty(x) == IF x = NoneStr THEN << >> ELSE x

\* lines 60-72
_looks_relevant_dynamic(result, dyn_terms) ==
    IF dyn_terms = << >> THEN TRUE
    ELSE LET hay == Lower(OrEmpty(result.claim)) \o << " " >>
                    \o Lower(OrEmpty(result.publisher)) \o << " " >>
                    \o Lower(OrEmpty(result.url))
         IN  \E i \in 1..Len(dyn_terms) : Contains(dyn_terms[i], hay)

\* as _looks_relevant_dynamic, looking at the claim text only
_looks_relevant_claim_only(result, dyn_terms) ==
    IF dyn_terms = << >> THEN TRUE
    ELSE \E i \in 1..Len(dyn_terms) : Contains(dyn_terms[i], Lower(OrEmpty(result.claim)))

NO_RATING   == <<"N","o"," ","r","a","t","i","n","g">>
LANGUAGE_EN == <<"e","n">>

\* dict.get(key, default): the default for an absent key (None here)
GetOr(x, default) == IF x = NoneStr THEN default ELSE x

\* how a call ends: it returns a value or it raises; a call that hangs
\* never ends
Returns(value) == [raised |-> FALSE, hung |-> FALSE, value |-> value]
Raises         == [raised |-> TRUE, hung |-> FALSE, value |-> << >>]
Hangs          == [raised |-> FALSE, hung |-> TRUE, value |-> << >>]

\* line 84: seconds requests.get waits for the service
REQUEST_TIMEOUT == 10

\* lines 89-104: the results built from a body of reviews.  A review is
\* [publisher, text, rating, url, review_date, language], None for an absent key
RawResults(reviews, max_results) ==
    Prefix([i \in 1..Len(reviews) |->
               LET review == reviews[i]
               IN  [source      |-> MULTI_SOURCE,
                    publisher   |-> GetOr(review.publisher, UnknownName),
                    claim       |-> OrEmpty(review.text),
                    rating      |-> GetOr(review.rating, NO_RATING),
                    url         |-> GetOr(review.url, << >>),
                    review_date |-> GetOr(review.review_date, << >>),
                    language    |-> IF Truthy(review.language) THEN review.language
                                    ELSE LANGUAGE_EN]],
           max_results)

\* as RawAttempt, calling requests.get without a timeout: the call waits for
\* a silent service for ever
RawAttemptWithoutTimeout(outcome, max_results) ==
    CASE outcome.kind = "raised"  -> Raises
      [] outcome.kind = "silent"  -> Hangs
      [] outcome.kind = "status"  -> Returns(<< >>)
      [] outcome.kind = "notjson" -> Raises
      [] outcome.kind = "body"    -> Returns(RawResults(outcome.reviews, max_results))

\* lines 81-104, the body of the try block: requests.get raises ("raised"),
\* the service stays silent and requests.get raises after REQUEST_TIMEOUT
\* seconds ("silent"), it answers with a status other than 200 ("status"),
\* with a body r.json() raises on ("notjson"), or with a body of reviews
\* ("body")
RawAttempt(outcome, max_results) ==
    CASE outcome.kind = "raised"  -> Raises
      [] outcome.kind = "silent"  -> IF REQUEST_TIMEOUT > 0 THEN Raises ELSE Hangs
      [] outcome.kind = "status"  -> Returns(<< >>)
      [] outcome.kind = "notjson" -> Raises
      [] outcome.kind = "body"    -> Returns(RawResults(outcome.reviews, max_results))

\* as _search_google_factcheck_raw, without the except clause
_search_google_factcheck_raw_unhandled(api_key, outcome, max_results) ==
    IF ~ Truthy(api_key) THEN Returns(<< >>)
    ELSE RawAttempt(outcome, max_results)

\* lines 77-107: how one API call ends
_search_google_factcheck_raw(api_key, outcome, max_results) ==
    IF ~ Truthy(api_key) THEN Returns(<< >>)
    ELSE LET attempt == RawAttempt(outcome, max_results)
         IN  IF attempt.raised THEN Returns(<< >>) ELSE attempt

\* str.startswith
StartsWith(s, prefix) ==
    Len(prefix) <= Len(s) /\ SubSeq(s, 1, Len(prefix)) = prefix

\* claim_extraction.py lines 56, 58, 60: the prefixes of a line
CLAIMS_HEADER == <<"C","L","A","I","M","S",":">>
TERMS_HEADER  == <<"S","E","A","R","C","H","_","T","E","R","M","S",":">>
BULLET        == <<"-"," ">>

\* no section yet (None), and the two sections
NO_SECTION     == "<None>"
CLAIMS_SECTION == "c"
TERMS_SECTION  == "t"

\* claim_extraction.py lines 54-65: the loop over the lines of the reply
RECURSIVE ParseLines(_, _, _, _)
ParseLines(lines, section, claims, terms) ==
    IF lines = << >> THEN [claims |-> claims, terms |-> terms]
    ELSE LET t == Strip(Head(lines))
         IN  IF StartsWith(t, CLAIMS_HEADER)
             THEN ParseLines(Tail(lines), CLAIMS_SECTION, claims, terms)
             ELSE IF StartsWith(t, TERMS_HEADER)
             THEN ParseLines(Tail(lines), TERMS_SECTION, claims, terms)
             ELSE IF StartsWith(t, BULLET)
             THEN LET val == Strip(SubSeq(t, 3, Len(t)))
                  IN  IF section = CLAIMS_SECTION
                      THEN ParseLines(Tail(lines), section, Append(claims, val), terms)
                      ELSE IF section = TERMS_SECTION
                      THEN ParseLines(Tail(lines), section, claims, Append(terms, val))
                      ELSE ParseLines(Tail(lines), section, claims, terms)
             ELSE ParseLines(Tail(lines), section, claims, terms)

\* as ParseReply, taking the bullets before any header for claims
ParseReplyFromClaims(content) == ParseLines(content, CLAIMS_SECTION, << >>, << >>)

\* claim_extraction.py lines 52-66: content is the reply as splitlines() cuts it
ParseReply(content) == ParseLines(content, NO_SECTION, << >>, << >>)

\* claim_extraction.py lines 46-68, the body of the try block: the model call
\* raises, or answers with a reply that is parsed
ExtractionAttempt(outcome) ==
    IF outcome.kind = "raised" THEN Raises
    ELSE Returns(ParseReply(outcome.content))

NO_EXTRACTION == [claims |-> << >>, terms |-> << >>]

\* as extract_key_terms_and_claims, without the except clause
extract_key_terms_and_claims_unhandled(outcome) == ExtractionAttempt(outcome)

\* claim_extraction.py lines 45-71: how one extraction ends
extract_key_terms_and_claims(outcome) ==
    LET attempt == ExtractionAttempt(outcome)
    IN  IF attempt.raised THEN Returns(NO_EXTRACTION) ELSE attempt

\* lines 127-133: the max_results of the sub-queries, in the order they are
\* issued: the first three claims, the first three terms, the raw query
SubqueryLimits(extraction, max_results) ==
    [i \in 1..Len(Prefix(extraction.claims, SUBQUERY_MAX)) |-> CLAIM_RESULTS]
    \o [i \in 1..Len(Prefix(extraction.terms, SUBQUERY_MAX)) |-> TERM_RESULTS]
    \o << max_results >>

\* as FilterResults, without the relevance test
RECURSIVE FilterResultsByUrlOnly(_, _, _)
FilterResultsByUrlOnly(results, dyn_terms, seen) ==
    IF results = << >> THEN << >>
    ELSE LET r == Head(results)
         IN  IF ~ Truthy(r.url) \/ r.url \in seen
             THEN FilterResultsByUrlOnly(Tail(results), dyn_terms, seen)
             ELSE << r >> \o FilterResultsByUrlOnly(Tail(results), dyn_terms, seen \cup { r.url })

\* lines 136-144: a result is kept when its url is truthy and not seen and it
\* looks relevant; only the urls of kept results are seen
RECURSIVE FilterResults(_, _, _)
FilterResults(results, dyn_terms, seen) ==
    IF results = << >> THEN << >>
    ELSE LET r == Head(results)
         IN  IF ~ Truthy(r.url) \/ r.url \in seen
             THEN FilterResults(Tail(results), dyn_terms, seen)
             ELSE IF _looks_relevant_dynamic(r, dyn_terms)
                  THEN << r >> \o FilterResults(Tail(results), dyn_terms, seen \cup { r.url })
                  ELSE FilterResults(Tail(results), dyn_terms, seen)

(***************************************************************************)
(* services/fact_sources.py: fusion                                        *)
(***************************************************************************)
POLITIFACT_LOWER == <<"p","o","l","i","t","i","f","a","c","t">>

\* as IsPolitiFact, comparing the publisher as it was received
IsPolitiFactVerbatim(r) == OrEmpty(r.publisher) = POLITIFACT

\* line 205-206
IsPolitiFact(r) == Strip(Lower(OrEmpty(r.publisher))) = POLITIFACT_LOWER

\* lines 202-210
_split_google_by_publisher(results) ==
    [pf    |-> SelectSeq(results, LAMBDA r : IsPolitiFact(r)),
     other |-> SelectSeq(results, LAMBDA r : ~ IsPolitiFact(r))]

\* as Fused, appending both external groups whenever there are external results
FusedWithEmptyGroups(pf_data, g_results) ==
    << pf_data >>
    \o (IF g_results # << >>
        THEN LET split == _split_google_by_publisher(g_results)
             IN  << [source_name |-> GROUP_NAMES[2], results |-> split.pf],
                    [source_name |-> GROUP_NAMES[3], results |-> split.other] >>
        ELSE << >>)

\* as Fused, leaving out an archive group without results
FusedOmittingEmptyArchive(pf_data, g_results) ==
    (IF pf_data.results # << >> THEN << pf_data >> ELSE << >>)
    \o (IF g_results # << >>
        THEN LET split == _split_google_by_publisher(g_results)
             IN  (IF split.pf # << >>
                  THEN << [source_name |-> GROUP_NAMES[2], results |-> split.pf] >>
                  ELSE << >>)
                 \o (IF split.other # << >>
                     THEN << [source_name |-> GROUP_NAMES[3], results |-> split.other] >>
                     ELSE << >>)
        ELSE << >>)

\* lines 234-241: the list `sources`
Fused(pf_data, g_results) ==
    << pf_data >>
    \o (IF g_results # << >>
        THEN LET split == _split_google_by_publisher(g_results)
             IN  (IF split.pf # << >>
                  THEN << [source_name |-> GROUP_NAMES[2], results |-> split.pf] >>
                  ELSE << >>)
                 \o (IF split.other # << >>
                     THEN << [source_name |-> GROUP_NAMES[3], results |-> split.other] >>
                     ELSE << >>)
        ELSE << >>)

(***************************************************************************)
(* Inputs of analyze_consensus: up to MaxResults results, split in order   *)
(* over up to three groups (the groups get_multi_source_analysis can       *)
(* emit).  A result names its publisher directly, through "source" only,   *)
(* or not at all; its rating scores 0, 1 or 3 or is unscorable.  To these  *)
(* are added the inputs of ConsensusExamples, with ratings that score 5.   *)
(***************************************************************************)
MaxResults == 3

ConsensusNames ==
    { [publisher |-> <<"A">>, source |-> <<"M","u","l","t","i","-","S","o","u","r","c","e">>],
      [publisher |-> NoneStr, source |-> <<"B">>],
      [publisher |-> << >>,   source |-> NoneStr] }

ConsensusResults ==
    { [publisher |-> n.publisher, source |-> n.source, rating |-> r] :
          n \in ConsensusNames, r \in EnumeratedRatings }

\* rs cut into consecutive groups: group i ends at position cuts[i] of rs
Grouped(rs, cuts) ==
    [i \in 1..Len(cuts) |->
        [source_name |-> GROUP_NAMES[i],
         results     |-> SubSeq(rs, (IF i = 1 THEN 0 ELSE cuts[i - 1]) + 1, cuts[i])]]

\* the cuts of n results into g consecutive groups, of which only the first
\* may be empty (as in the lists get_multi_source_analysis builds)
Cuts(n, g) ==
    { c \in [1..g -> 0..n] :
        /\ \A i \in 1..g : i > 1 => c[i - 1] < c[i]
        /\ g > 0 => c[g] = n }

Result(publisher, r) == [publisher |-> publisher, source |-> MULTI_SOURCE, rating |-> r]

\* publishers A = 5, B = 5, C = 0, one result each
EXAMPLE_ABC ==
    << Result(<<"A">>, RATING_TRUE), Result(<<"B">>, RATING_TRUE), Result(<<"C">>, RATING_PANTS) >>

\* the widest disagreement of two publishers: 0 and 5
EXAMPLE_SPLIT == << Result(<<"A">>, RATING_PANTS), Result(<<"B">>, RATING_TRUE) >>

\* publisher A's result repeated
EXAMPLE_REPEAT ==
    << Result(<<"A">>, RATING_TRUE), Result(<<"A">>, RATING_TRUE), Result(<<"B">>, RATING_PANTS) >>

ConsensusExamples ==
    { Grouped(EXAMPLE_ABC, << 0, 2, 3 >>), Grouped(EXAMPLE_ABC, << 3 >>),
      Grouped(EXAMPLE_SPLIT, << 1, 2 >>),  Grouped(EXAMPLE_SPLIT, << 0, 0, 2 >>),
      Grouped(EXAMPLE_REPEAT, << 1, 3 >>), Grouped(EXAMPLE_REPEAT, << 3 >>) }

\* no report yet
NoReport == [agreement |-> "<not returned>"]

\* no other function is being called
NoArgs   == [function |-> "<none>"]
NoResult == [done |-> FALSE]

\* clients.py line 5: None
NoClient == 0

\* no request is being served
NoRequest == [query |-> << >>, google_api_key |-> << >>]

\* a task that has not been submitted to the executor
NotSubmitted == [pc |-> "idle"]

(***************************************************************************)
(* Specification of one call of analyze_consensus                          *)
(***************************************************************************)
InitConsensus ==
    /\ pc = "call"
    /\ \/ \E n \in 0..MaxResults, g \in 0..Len(GROUP_NAMES) :
            /\ g = 0 => n = 0
            /\ \E rs \in [1..n -> ConsensusResults], cuts \in Cuts(n, g) :
                   sources_data = Grouped(rs, cuts)
       \/ sources_data \in ConsensusExamples
    /\ consensus = NoReport
    /\ rating = NoneStr
    /\ score = NoneScore
    /\ request = NoRequest /\ archive = << >>
    /\ pf_future = NotSubmitted /\ google_future = NotSubmitted
    /\ args = NoArgs /\ returned = NoResult
    /\ _openai_client = NoClient /\ callers = << >>

AnalyzeConsensus ==
    /\ pc = "call"
    /\ consensus' = analyze_consensus(sources_data, OUTLIER_DELTA)
    /\ pc' = "return"
    /\ UNCHANGED << rating, score, sources_data >>
    /\ UNCHANGED << request, archive, pf_future, google_future >>
    /\ UNCHANGED aside

NextConsensus == AnalyzeConsensus

SpecConsensus == InitConsensus /\ [][NextConsensus]_vars

(***************************************************************************)
(* Specification of one call of standardize_rating                         *)
(***************************************************************************)
InitRatings ==
    /\ pc = "call"
    /\ \/ rating = NoneStr
       \/ \E n \in 0..MaxPieces : \E ps \in [1..n -> Pieces] : rating = Concat(ps)
    /\ score = NoneScore
    /\ sources_data = << >>
    /\ consensus = NoReport
    /\ request = NoRequest /\ archive = << >>
    /\ pf_future = NotSubmitted /\ google_future = NotSubmitted
    /\ args = NoArgs /\ returned = NoResult
    /\ _openai_client = NoClient /\ callers = << >>

StandardizeRating ==
    /\ pc = "call"
    /\ score' = standardize_rating(rating)
    /\ pc' = "return"
    /\ UNCHANGED << rating, sources_data, consensus >>
    /\ UNCHANGED << request, archive, pf_future, google_future >>
    /\ UNCHANGED aside

NextRatings == StandardizeRating

SpecRatings == InitRatings /\ [][NextRatings]_vars

(***************************************************************************)
(* Specification of one request served by get_multi_source_analysis        *)
(*                                                                         *)
(* The executor runs the two tasks on two worker threads; the main thread  *)
(* waits for the archive task, then for the external task.  A task's steps *)
(* are its calls to the outside: the embedding provider and the index for  *)
(* the archive task; the extraction model and the Fact Check API for the   *)
(* external task.                                                          *)
(***************************************************************************)
\* the longest archive
MaxRows == 2

QUERY_NAMED   == <<"D","i","d"," ","A","c","m","e"," ","C","o","r","p"," ","l","i","e","?">>
QUERY_GENERIC == <<"w","h","a","t"," ","i","s"," ","t","r","u","e">>

\* a query no term can be derived from
QUERY_BARE    == <<"i","s"," ","i","t"," ","s","o">>

Queries == { QUERY_NAMED, QUERY_GENERIC, QUERY_BARE }

ApiKeys == { << >>, <<"K","E","Y">> }

\* rows of metadata: a DataFrame row [claim, explanation, verdict, url]
ROW_LIED  == [claim |-> <<"A","c","m","e"," ","C","o","r","p"," ","l","i","e","d">>, explanation |-> << >>,
              verdict |-> RATING_FALSE, url |-> <<"p","f","/","1">>]
ROW_WON   == [claim |-> <<"A","c","m","e"," ","w","o","n">>, explanation |-> <<"t","h","e"," ","c","o","r","p">>,
              verdict |-> RATING_TRUE, url |-> <<"p","f","/","2">>]
ROW_NOURL == [claim |-> <<"T","a","x","e","s"," ","r","o","s","e">>, explanation |-> << >>,
              verdict |-> RATING_MIXTURE, url |-> << >>]

Rows == { ROW_LIED, ROW_WON, ROW_NOURL }

\* the similarity the index reports for a hit
Similarities == { Rat(4, 5) }

\* outcomes of one call of the extraction model
ExtractionOutcomes ==
    { [kind |-> "raised", content |-> << >>],
      [kind |-> "answer",
       content |-> << CLAIMS_HEADER, <<"-"," ","A","c","m","e"," ","l","i","e","d">>,
                      TERMS_HEADER, <<"-"," ","A","c","m","e">> >>] }

\* reviews of an API body, None for an absent key; the review by PolitiFact is
\* the fact-check of the archive row ROW_LIED, at the same url
REVIEW_PF    == [publisher |-> <<" ","p","o","l","i","t","i","f","a","c","t"," ">>, text |-> <<"T","r","u","e",":"," ","A","c","m","e"," ","l","i","e","d">>, rating |-> RATING_FALSE,
                 url |-> ROW_LIED.url, review_date |-> NoneStr, language |-> LANGUAGE_EN]
REVIEW_OTHER == [publisher |-> <<"S","n","o","p","e","s">>, text |-> <<"A","c","m","e"," ","C","o","r","p"," ","l","i","e","d">>, rating |-> RATING_MIXTURE,
                 url |-> <<"s","n","/","1">>, review_date |-> NoneStr, language |-> NoneStr]
REVIEW_OFF   == [publisher |-> NoneStr, text |-> <<"T","a","x","e","s"," ","r","o","s","e">>, rating |-> NoneStr,
                 url |-> <<"o","t","/","1">>, review_date |-> NoneStr, language |-> NoneStr]
REVIEW_SAME  == [publisher |-> NoneStr, text |-> <<"A","c","m","e"," ","l","i","e","d">>, rating |-> RATING_PANTS,
                 url |-> <<"o","t","/","1">>, review_date |-> NoneStr, language |-> NoneStr]
REVIEW_NOURL == [publisher |-> <<"S","n","o","p","e","s">>, text |-> <<"A","c","m","e"," ","l","i","e","d">>, rating |-> RATING_TRUE,
                 url |-> NoneStr, review_date |-> NoneStr, language |-> NoneStr]

\* a further review of the named subject, at the url sn/<n>
ReviewAt(n) == [publisher |-> <<"S","n","o","p","e","s">>, text |-> <<"A","c","m","e">>, rating |-> RATING_FALSE,
                url |-> <<"s","n","/">> \o << Digits[n + 1] >>,
                review_date |-> NoneStr, language |-> NoneStr]

\* outcomes of one API call
ApiOutcomes ==
    { [kind |-> "raised", reviews |-> << >>],
      [kind |-> "silent", reviews |-> << >>],
      [kind |-> "status", reviews |-> << >>],
      [kind |-> "notjson", reviews |-> << >>],
      [kind |-> "body", reviews |-> << REVIEW_OFF, REVIEW_SAME, REVIEW_NOURL >>],
      [kind |-> "body", reviews |-> << REVIEW_OTHER, REVIEW_PF, ReviewAt(2),
                                       ReviewAt(3), ReviewAt(4) >>] }

Init ==
    /\ pc = "start"
    /\ \E q \in Queries, k \in ApiKeys : request = [query |-> q, google_api_key |-> k]
    /\ \E n \in 1..MaxRows : archive \in [1..n -> Rows]
    /\ pf_future = NotSubmitted
    /\ google_future = NotSubmitted
    /\ sources_data = << >>
    /\ consensus = NoReport
    /\ rating = NoneStr
    /\ score = NoneScore
    /\ args = NoArgs /\ returned = NoResult
    /\ _openai_client = NoClient /\ callers = << >>

\* lines 226-229: executor.submit, twice
Submit ==
    /\ pc = "start"
    /\ pf_future' = [pc |-> "embed"]
    /\ google_future' = [pc |-> "start"]
    /\ pc' = "gather_pf"
    /\ UNCHANGED << rating, score, sources_data, consensus, request, archive >>
    /\ UNCHANGED aside

\* search.py line 25: embed_text answers
PfEmbed ==
    /\ pf_future.pc = "embed"
    /\ pf_future' = [pc |-> "search"]
    /\ UNCHANGED << pc, rating, score, sources_data, consensus, request, archive,
                    google_future >>
    /\ UNCHANGED aside

\* search.py line 25: embed_text raises, and so does the task
PfEmbedRaises ==
    /\ pf_future.pc = "embed"
    /\ pf_future' = [pc |-> "raised"]
    /\ UNCHANGED << pc, rating, score, sources_data, consensus, request, archive,
                    google_future >>
    /\ UNCHANGED aside

\* search.py lines 32-119: index.search answers and the task returns
PfSearch ==
    /\ pf_future.pc = "search"
    /\ \E hits \in IndexAnswers(Len(archive), Similarities) :
           pf_future' = [pc |-> "done", hits |-> hits,
                         value |-> search_politifact_db(request.query, hits, archive)]
    /\ UNCHANGED << pc, rating, score, sources_data, consensus, request, archive,
                    google_future >>
    /\ UNCHANGED aside

\* the external task has returned `value`; its locals and the calls it made
GoogleDone(value, dyn_terms, all_results, extract_calls, api_calls) ==
    [pc |-> "done", value |-> value, dyn_terms |-> dyn_terms,
     all_results |-> all_results, extract_calls |-> extract_calls,
     api_calls |-> api_calls]

\* the external task has raised
GoogleRaised == [pc |-> "raised"]

\* the external task waits for a call that never ends
GoogleHangs == [pc |-> "hung"]

\* fact_sources.py lines 118-119
GoogleNoKey ==
    /\ google_future.pc = "start"
    /\ ~ Truthy(request.google_api_key)
    /\ google_future' = GoogleDone(<< >>, << >>, << >>, 0, 0)
    /\ UNCHANGED << pc, rating, score, sources_data, consensus, request, archive,
                    pf_future >>
    /\ UNCHANGED aside

\* fact_sources.py line 121: the extraction of _build_dynamic_terms ends
GoogleBuildTerms ==
    /\ google_future.pc = "start"
    /\ Truthy(request.google_api_key)
    /\ \E outcome \in ExtractionOutcomes :
           LET extraction == extract_key_terms_and_claims(outcome)
           IN  google_future' =
                   IF extraction.raised THEN GoogleRaised
                   ELSE [pc |-> "extract",
                         dyn_terms |-> _build_dynamic_terms(request.query, extraction.value),
                         extract_calls |-> 1]
    /\ UNCHANGED << pc, rating, score, sources_data, consensus, request, archive,
                    pf_future >>
    /\ UNCHANGED aside

\* fact_sources.py line 126: the second extraction ends
GoogleExtract ==
    /\ google_future.pc = "extract"
    /\ \E outcome \in ExtractionOutcomes :
           LET extraction == extract_key_terms_and_claims(outcome)
           IN  google_future' =
                   IF extraction.raised THEN GoogleRaised
                   ELSE [pc |-> "search",
                         dyn_terms |-> google_future.dyn_terms,
                         limits |-> SubqueryLimits(extraction.value, MAX_RESULTS),
                         all_results |-> << >>,
                         extract_calls |-> google_future.extract_calls + 1,
                         api_calls |-> 0]
    /\ UNCHANGED << pc, rating, score, sources_data, consensus, request, archive,
                    pf_future >>
    /\ UNCHANGED aside

\* fact_sources.py lines 127-146: one API call ends; after the last one the
\* results are filtered and the task returns
GoogleSubquery ==
    /\ google_future.pc = "search"
    /\ \E outcome \in ApiOutcomes :
           LET call  == _search_google_factcheck_raw(request.google_api_key, outcome,
                                                     Head(google_future.limits))
               found == google_future.all_results \o call.value
               rest  == Tail(google_future.limits)
               calls == google_future.api_calls + 1
           IN  google_future' =
                   IF call.hung THEN GoogleHangs
                   ELSE IF call.raised THEN GoogleRaised
                   ELSE IF rest # << >>
                   THEN [google_future EXCEPT !.limits = rest, !.all_results = found,
                                              !.api_calls = calls]
                   ELSE GoogleDone(Prefix(FilterResults(found, google_future.dyn_terms, {}),
                                          MAX_RESULTS),
                                   google_future.dyn_terms, found,
                                   google_future.extract_calls, calls)
    /\ UNCHANGED << pc, rating, score, sources_data, consensus, request, archive,
                    pf_future >>
    /\ UNCHANGED aside

\* fact_sources.py line 231: pf_future.result() returns
GatherPf ==
    /\ pc = "gather_pf"
    /\ pf_future.pc = "done"
    /\ pc' = "gather_google"
    /\ UNCHANGED << rating, score, sources_data, consensus, request, archive,
                    pf_future, google_future >>
    /\ UNCHANGED aside

\* as GatherPfRaises, returning an archive group without results instead
GatherPfSwallows ==
    /\ pc = "gather_pf"
    /\ pf_future.pc = "raised"
    /\ google_future.pc \in { "done", "raised" }
    /\ sources_data' = << [source_name |-> GROUP_NAMES[1], results |-> << >>] >>
    /\ consensus' = analyze_consensus(sources_data', OUTLIER_DELTA)
    /\ pc' = "return"
    /\ UNCHANGED << rating, score, request, archive, pf_future, google_future >>
    /\ UNCHANGED aside

\* fact_sources.py lines 225-231: pf_future.result() raises; leaving the `with`
\* block waits for the other task, then the exception leaves the function
GatherPfRaises ==
    /\ pc = "gather_pf"
    /\ pf_future.pc = "raised"
    /\ google_future.pc \in { "done", "raised" }
    /\ pc' = "raised"
    /\ UNCHANGED << rating, score, sources_data, consensus, request, archive,
                    pf_future, google_future >>
    /\ UNCHANGED aside

\* as GatherGoogle, without waiting for the external task: a task still
\* running counts as one that found nothing
GatherGoogleWithoutWaiting ==
    /\ pc = "gather_google"
    /\ IF google_future.pc = "raised"
       THEN /\ pc' = "raised"
            /\ UNCHANGED << sources_data, consensus >>
       ELSE /\ sources_data' = Fused(pf_future.value,
                                     IF google_future.pc = "done"
                                     THEN google_future.value ELSE << >>)
            /\ consensus' = analyze_consensus(sources_data', OUTLIER_DELTA)
            /\ pc' = "return"
    /\ UNCHANGED << rating, score, request, archive, pf_future, google_future >>
    /\ UNCHANGED aside

\* fact_sources.py lines 232-246: google_future.result() returns, the groups
\* are fused and the consensus computed; or it raises what the task raised
GatherGoogle ==
    /\ pc = "gather_google"
    /\ google_future.pc \in { "done", "raised" }
    /\ IF google_future.pc = "raised"
       THEN /\ pc' = "raised"
            /\ UNCHANGED << sources_data, consensus >>
       ELSE /\ sources_data' = Fused(pf_future.value, google_future.value)
            /\ consensus' = analyze_consensus(sources_data', OUTLIER_DELTA)
            /\ pc' = "return"
    /\ UNCHANGED << rating, score, request, archive, pf_future, google_future >>
    /\ UNCHANGED aside

Next ==
    \/ Submit
    \/ PfEmbed
    \/ PfEmbedRaises
    \/ PfSearch
    \/ GoogleNoKey
    \/ GoogleBuildTerms
    \/ GoogleExtract
    \/ GoogleSubquery
    \/ GatherPf
    \/ GatherPfRaises
    \/ GatherGoogle

Spec == Init /\ [][Next]_vars

(***************************************************************************)
(* Specification of one request on an archive of one row, with the         *)
(* scheduling of its three threads.  The pool runs each task on a thread   *)
(* of its own (max_workers=2, two tasks), so a thread that can take a step *)
(* eventually takes it: weak fairness of every step.  A step of a task is  *)
(* the end of a call: the API call ends by its timeout when the service is *)
(* silent; the embedding and the extraction calls are taken to end.        *)
(*                                                                         *)
(* WF_vars(A) is  []<>~(ENABLED <<A>>_vars) \/ []<><<A>>_vars.  For the     *)
(* steps that compute results, ENABLED is written as the guard of the      *)
(* step: each of them changes the position of its thread, so it is enabled *)
(* exactly where its guard holds.                                          *)
(***************************************************************************)
InitTermination ==
    /\ Init
    /\ Len(archive) = 1

\* the guards of the steps that compute results
PfSearchEnabled == pf_future.pc = "search"

GoogleBuildTermsEnabled == google_future.pc = "start" /\ Truthy(request.google_api_key)

GoogleExtractEnabled == google_future.pc = "extract"

GoogleSubqueryEnabled == google_future.pc = "search"

GatherGoogleEnabled == pc = "gather_google" /\ google_future.pc \in { "done", "raised" }

SpecTermination ==
    /\ InitTermination
    /\ [][Next]_vars
    /\ WF_vars(Submit)
    /\ WF_vars(PfEmbed \/ PfEmbedRaises)
    /\ WF_vars(GoogleNoKey)
    /\ WF_vars(GatherPf)
    /\ WF_vars(GatherPfRaises)
    /\ (([]<>~PfSearchEnabled) \/ []<><<PfSearch>>_vars)
    /\ (([]<>~GoogleBuildTermsEnabled) \/ []<><<GoogleBuildTerms>>_vars)
    /\ (([]<>~GoogleExtractEnabled) \/ []<><<GoogleExtract>>_vars)
    /\ (([]<>~GoogleSubqueryEnabled) \/ []<><<GoogleSubquery>>_vars)
    /\ (([]<>~GatherGoogleEnabled) \/ []<><<GatherGoogle>>_vars)

(***************************************************************************)
(* utils/source_tracking.py: get_source_statistics, get_top_sources        *)
(***************************************************************************)
\* lines 135, 140, 145: the verdicts of the three percentages
FALSE_RATINGS == << "false", "pants-fire", "barely-true" >>
TRUE_RATINGS  == << "true", "mostly-true" >>
MIXED_RATINGS == << "half-true" >>

\* lines 150, 153: a percentage above which a record is "High"
HIGH_RATE_ABOVE == 50

\* line 174: the default of limit
TOP_SOURCES_LIMIT == 50

\* None where a dict is expected
NoStatistics == [source |-> "<None>"]

\* 'source' in metadata.columns
HasSourceColumn(metadata) ==
    \A i \in 1..Len(metadata) : "source" \in DOMAIN metadata[i]

\* line 125: metadata[metadata['source'] == source]
SourceClaims(source, metadata) ==
    SelectSeq(metadata, LAMBDA row : row.source = source)

\* Series.value_counts().to_dict(): how often each value occurs
ValueCounts(xs) ==
    [v \in { xs[i] : i \in 1..Len(xs) } |->
        Cardinality({ i \in 1..Len(xs) : xs[i] = v })]

\* sum(ratings.get(r, 0) for r in labels)
RECURSIVE CountOf(_, _)
CountOf(ratings, labels) ==
    IF labels = << >> THEN 0
    ELSE (IF Head(labels) \in DOMAIN ratings THEN ratings[Head(labels)] ELSE 0)
         + CountOf(ratings, Tail(labels))

\* (count / total) * 100
Percentage(count, total) == Rat(count * 100, total)

\* as Indicator, with >= for >
IndicatorNonStrict(false_pct, true_pct) ==
    IF ~ RatLess(false_pct, Rat(HIGH_RATE_ABOVE, 1))
    THEN [indicator |-> "High False Rate", color |-> "red"]
    ELSE IF ~ RatLess(true_pct, Rat(HIGH_RATE_ABOVE, 1))
    THEN [indicator |-> "High True Rate", color |-> "green"]
    ELSE [indicator |-> "Mixed Record", color |-> "orange"]

\* lines 150-158
Indicator(false_pct, true_pct) ==
    IF RatLess(Rat(HIGH_RATE_ABOVE, 1), false_pct)
    THEN [indicator |-> "High False Rate", color |-> "red"]
    ELSE IF RatLess(Rat(HIGH_RATE_ABOVE, 1), true_pct)
    THEN [indicator |-> "High True Rate", color |-> "green"]
    ELSE [indicator |-> "Mixed Record", color |-> "orange"]

\* lines 110-171; the two dates of a publication_date column are left out
get_source_statistics(source, metadata) ==
    IF ~ HasSourceColumn(metadata) THEN NoStatistics
    ELSE LET source_claims == SourceClaims(source, metadata)
             total     == Len(source_claims)
             ratings   == ValueCounts([i \in 1..total |-> source_claims[i].verdict])
             false_pct == Percentage(CountOf(ratings, FALSE_RATINGS), total)
             true_pct  == Percentage(CountOf(ratings, TRUE_RATINGS), total)
             mixed_pct == Percentage(CountOf(ratings, MIXED_RATINGS), total)
             ind       == Indicator(false_pct, true_pct)
         IN  IF total = 0 THEN NoStatistics
             ELSE [source           |-> source,
                   total_checks     |-> total,
                   rating_breakdown |-> ratings,
                   false_percentage |-> false_pct,
                   true_percentage  |-> true_pct,
                   mixed_percentage |-> mixed_pct,
                   indicator        |-> ind.indicator,
                   indicator_color  |-> ind.color]

\* value_counts().index: the values by falling count, equal counts in the
\* order of first occurrence
RECURSIVE ByFallingCount(_, _)
ByFallingCount(names, counts) ==
    IF names = << >> THEN << >>
    ELSE LET first == CHOOSE i \in 1..Len(names) :
                          /\ \A j \in 1..Len(names) : counts[names[j]] <= counts[names[i]]
                          /\ \A j \in 1..(i - 1) : counts[names[j]] < counts[names[i]]
         IN  << names[first] >>
             \o ByFallingCount(SelectSeq(names, LAMBDA x : x # names[first]), counts)

\* lines 174-189
get_top_sources(metadata, limit) ==
    IF ~ HasSourceColumn(metadata) THEN << >>
    ELSE LET names == [i \in 1..Len(metadata) |-> metadata[i].source]
         IN  Prefix(ByFallingCount(UniqueInOrder(names, << >>), ValueCounts(names)), limit)

(***************************************************************************)
(* Specification of one call of search_politifact_db, on archives long     *)
(* enough for the cap of the keyword boost                                 *)
(***************************************************************************)
\* rows beyond BOOST_MAX + 1 in the longest archive
MaxExtraRows == 1

\* a row with one of the two keywords of the named query
ROW_PARTIAL == [claim |-> <<"A","c","m","e"," ","w","o","n">>, explanation |-> << >>,
                verdict |-> RATING_TRUE, url |-> <<"p","f","/","3">>]

\* an archive of n rows: ROW_WON at k, ROW_PARTIAL at m, ROW_LIED elsewhere
LongArchive(n, k, m) ==
    [i \in 1..n |-> IF i = k THEN ROW_WON ELSE IF i = m THEN ROW_PARTIAL ELSE ROW_LIED]

\* the index answers with rows among the first TOP_K
NearAnswers(n) == IndexAnswers(IF n < TOP_K THEN n ELSE TOP_K, Similarities)

InitArchive ==
    /\ pc = "call"
    /\ \E q \in Queries : request = [query |-> q, google_api_key |-> << >>]
    /\ \/ \E n \in 1..MaxRows : archive \in [1..n -> Rows]
       \/ \E n \in (BOOST_MAX + 1)..(BOOST_MAX + 1 + MaxExtraRows) :
              \E k, m \in 1..n : k # m /\ archive = LongArchive(n, k, m)
    /\ pf_future = [pc |-> "search"]
    /\ google_future = NotSubmitted
    /\ sources_data = << >>
    /\ consensus = NoReport
    /\ rating = NoneStr
    /\ score = NoneScore
    /\ args = NoArgs /\ returned = NoResult
    /\ _openai_client = NoClient /\ callers = << >>

\* search.py lines 32-119
SearchArchive ==
    /\ pc = "call"
    /\ \E hits \in NearAnswers(Len(archive)) :
           pf_future' = [pc |-> "done", hits |-> hits,
                         value |-> search_politifact_db(request.query, hits, archive)]
    /\ pc' = "return"
    /\ UNCHANGED << rating, score, sources_data, consensus, request, archive,
                    google_future >>
    /\ UNCHANGED aside

NextArchive == SearchArchive

SpecArchive == InitArchive /\ [][NextArchive]_vars

(***************************************************************************)
(* Specification of a session on one archive: calls of                     *)
(* get_source_statistics, get_top_sources and search_politifact_db in any  *)
(* order, each on the archive the session loaded                           *)
(***************************************************************************)
\* rows of the longest archive of a session
MaxStatRows == 3

\* the speakers of the archive
Speakers == { "Acme Corp", "Bolt Inc" }

\* the verdicts of the archive
Verdicts == { "true", "half-true", "barely-true", "mostly-false", "false" }

\* a row of an archive with a source column
StatRow(speaker, verdict) ==
    [claim |-> ROW_LIED.claim, explanation |-> ROW_LIED.explanation,
     verdict |-> verdict, url |-> ROW_LIED.url, source |-> speaker]

StatRows == { StatRow(speaker, verdict) : speaker \in Speakers, verdict \in Verdicts }

\* the index answers a session's query with the first rows, in their order
SessionAnswers(n) ==
    { hits \in NearAnswers(n) :
        \A i \in 1..TOP_K : hits[i].row = (IF i < n THEN i ELSE n) }

InitSession ==
    /\ pc = "session"
    /\ \/ \E n \in 1..MaxStatRows : archive \in [1..n -> StatRows]
       \/ archive \in [1..1 -> Rows]
    /\ args = NoArgs
    /\ returned = NoResult
    /\ request = NoRequest
    /\ pf_future = NotSubmitted
    /\ google_future = NotSubmitted
    /\ sources_data = << >>
    /\ consensus = NoReport
    /\ rating = NoneStr
    /\ score = NoneScore
    /\ _openai_client = NoClient
    /\ callers = << >>

\* source_tracking.py lines 110-171: one call
GetSourceStatistics ==
    /\ pc = "session"
    /\ \E source \in Speakers :
           /\ args' = [function |-> "get_source_statistics", source |-> source]
           /\ returned' = [done |-> TRUE, value |-> get_source_statistics(source, archive)]
    /\ UNCHANGED << pc, rating, score, sources_data, consensus, request, archive,
                    pf_future, google_future, _openai_client, callers >>

\* source_tracking.py lines 174-189: one call
GetTopSources ==
    /\ pc = "session"
    /\ args' = [function |-> "get_top_sources", limit |-> TOP_SOURCES_LIMIT]
    /\ returned' = [done |-> TRUE, value |-> get_top_sources(archive, TOP_SOURCES_LIMIT)]
    /\ UNCHANGED << pc, rating, score, sources_data, consensus, request, archive,
                    pf_future, google_future, _openai_client, callers >>

\* as SearchPolitifactDb, writing the lowercased search column of line 78
\* into the archive instead of keeping it in a Series of its own
SearchPolitifactDbAddingColumn ==
    /\ pc = "session"
    /\ \E hits \in SessionAnswers(Len(archive)) :
           /\ args' = [function |-> "search_politifact_db", query |-> QUERY_NAMED,
                       hits |-> hits]
           /\ returned' = [done |-> TRUE,
                           value |-> search_politifact_db(QUERY_NAMED, hits, archive)]
    /\ archive' = [i \in 1..Len(archive) |->
                      [search_col |-> Lower(archive[i].claim \o << " " >>
                                            \o archive[i].explanation)]
                      @@ archive[i]]
    /\ UNCHANGED << pc, rating, score, sources_data, consensus, request,
                    pf_future, google_future, _openai_client, callers >>

\* search.py lines 24-119: one call
SearchPolitifactDb ==
    /\ pc = "session"
    /\ \E hits \in SessionAnswers(Len(archive)) :
           /\ args' = [function |-> "search_politifact_db", query |-> QUERY_NAMED,
                       hits |-> hits]
           /\ returned' = [done |-> TRUE,
                           value |-> search_politifact_db(QUERY_NAMED, hits, archive)]
    /\ UNCHANGED << pc, rating, score, sources_data, consensus, request, archive,
                    pf_future, google_future, _openai_client, callers >>

NextSession ==
    \/ GetSourceStatistics
    \/ GetTopSources
    \/ SearchPolitifactDb

SpecSession == InitSession /\ [][NextSession]_vars

(***************************************************************************)
(* utils/source_tracking.py: extract_source_from_claim.  The regular       *)
(* expressions and the rapidfuzz scorers are collaborators: the patterns   *)
(* yield some candidates, and process.extractOne answers with the roster   *)
(* member of the best score.  The specification steps through one call.    *)
(***************************************************************************)
\* entries of the longest roster, candidates of the most matching patterns
MaxRoster     == 2
MaxCandidates == 2

\* lines 37-58: the patterns, each yielding at most one candidate
PATTERNS == 7

\* line 73: the length below which the whole text is matched
SHORT_TEXT_BELOW == 100

\* line 76: the score the whole-text match has to exceed
FALLBACK_ABOVE == 85

\* lines 89, 100: score_cutoff
SCORE_CUTOFF == 80

\* the scores around the two thresholds
Scores == { SCORE_CUTOFF - 1, SCORE_CUTOFF, FALLBACK_ABOVE, FALLBACK_ABOVE + 1 }

\* the lengths of a claim text: empty, and around SHORT_TEXT_BELOW
ClaimLengths == { 0, SHORT_TEXT_BELOW - 1, SHORT_TEXT_BELOW }

\* None where a source name is expected
NoSource == "<None>"

\* the roster of n known sources
Roster(n) == [i \in 1..n |-> << "Acme Corp", "Bolt Inc", "Cato Ltd" >>[i]]

\* no answer of process.extractOne yet, or None
NoMatch == [choice |-> NoSource, score |-> 0, scorer |-> "<none>"]

\* the best matches rapidfuzz can report for a roster: a member and a score
BestMatches(all_sources, scorer) ==
    { [choice |-> all_sources[i], score |-> sc, scorer |-> scorer] :
        i \in 1..Len(all_sources), sc \in Scores }

\* process.extractOne(..., score_cutoff=cutoff): the best match when its score
\* is at least the cutoff, else None
extractOne(best, cutoff) == IF best.score >= cutoff THEN best ELSE NoMatch

\* as FallbackAccepts, with >= for >
FallbackAcceptsNonStrict(best_match) ==
    best_match # NoMatch /\ best_match.score >= FALLBACK_ABOVE

\* line 76: best_match and best_match[1] > 85
FallbackAccepts(best_match) ==
    best_match # NoMatch /\ best_match.score > FALLBACK_ABOVE

\* the call with its arguments and its locals
SourceCall(claim_length, all_sources, detected_candidates, potential, match) ==
    [function |-> "extract_source_from_claim", claim_length |-> claim_length,
     all_sources |-> all_sources, detected_candidates |-> detected_candidates,
     potential |-> potential, match |-> match]

InitSource ==
    /\ pc = "call"
    /\ \E n \in ClaimLengths, m \in 0..MaxRoster :
           args = SourceCall(n, Roster(m), 0, 0, NoMatch)
    /\ returned = NoResult
    /\ archive = << >>
    /\ request = NoRequest
    /\ pf_future = NotSubmitted
    /\ google_future = NotSubmitted
    /\ sources_data = << >>
    /\ consensus = NoReport
    /\ rating = NoneStr
    /\ score = NoneScore
    /\ _openai_client = NoClient
    /\ callers = << >>

\* lines 28-29
SourceEmptyArguments ==
    /\ pc = "call"
    /\ args.claim_length = 0 \/ args.all_sources = << >>
    /\ returned' = [done |-> TRUE, value |-> NoSource]
    /\ pc' = "return"
    /\ UNCHANGED << args, rating, score, sources_data, consensus, request, archive,
                    pf_future, google_future, _openai_client, callers >>

\* lines 62-69: the loop over the patterns; detected_candidates is the number
\* of patterns that matched.  Without a candidate the call goes on to the
\* whole-text match of a short text, or ends at line 107
SourcePatterns ==
    /\ pc = "call"
    /\ args.claim_length # 0
    /\ args.all_sources # << >>
    /\ \E found \in 0..(IF MaxCandidates < PATTERNS THEN MaxCandidates ELSE PATTERNS) :
           /\ args' = [args EXCEPT !.detected_candidates = found,
                                   !.potential = IF found > 0 THEN 1 ELSE 0]
           /\ IF found > 0
              THEN pc' = "match" /\ UNCHANGED returned
              ELSE IF args.claim_length < SHORT_TEXT_BELOW
              THEN pc' = "fallback" /\ UNCHANGED returned
              ELSE /\ pc' = "return"
                   /\ returned' = [done |-> TRUE, value |-> NoSource]
    /\ UNCHANGED << rating, score, sources_data, consensus, request, archive,
                    pf_future, google_future, _openai_client, callers >>

\* lines 73-77, and line 107 when the best match is not accepted
SourceFallback ==
    /\ pc = "fallback"
    /\ \E best_match \in BestMatches(args.all_sources, "partial_ratio") :
           /\ args' = [args EXCEPT !.match = best_match]
           /\ returned' = [done |-> TRUE,
                           value |-> IF FallbackAccepts(best_match)
                                     THEN best_match.choice ELSE NoSource]
    /\ pc' = "return"
    /\ UNCHANGED << rating, score, sources_data, consensus, request, archive,
                    pf_future, google_future, _openai_client, callers >>

\* lines 86-94: the candidate as it was found
SourceMatch ==
    /\ pc = "match"
    /\ \E best \in BestMatches(args.all_sources, "token_sort_ratio") :
           LET match == extractOne(best, SCORE_CUTOFF)
           IN  /\ args' = [args EXCEPT !.match = match]
               /\ IF match # NoMatch
                  THEN /\ returned' = [done |-> TRUE, value |-> match.choice]
                       /\ pc' = "return"
                  ELSE /\ pc' = "match_norm"
                       /\ UNCHANGED returned
    /\ UNCHANGED << rating, score, sources_data, consensus, request, archive,
                    pf_future, google_future, _openai_client, callers >>

\* lines 96-105: the candidate with its initials dotted; then the next
\* candidate, or line 107 after the last
SourceMatchNormalized ==
    /\ pc = "match_norm"
    /\ \E best \in BestMatches(args.all_sources, "token_sort_ratio") :
           LET match_norm == extractOne(best, SCORE_CUTOFF)
           IN  IF match_norm # NoMatch
               THEN /\ args' = [args EXCEPT !.match = match_norm]
                    /\ returned' = [done |-> TRUE, value |-> match_norm.choice]
                    /\ pc' = "return"
               ELSE IF args.potential < args.detected_candidates
               THEN /\ args' = [args EXCEPT !.match = match_norm,
                                            !.potential = args.potential + 1]
                    /\ pc' = "match"
                    /\ UNCHANGED returned
               ELSE /\ args' = [args EXCEPT !.match = match_norm]
                    /\ returned' = [done |-> TRUE, value |-> NoSource]
                    /\ pc' = "return"
    /\ UNCHANGED << rating, score, sources_data, consensus, request, archive,
                    pf_future, google_future, _openai_client, callers >>

NextSource ==
    \/ SourceEmptyArguments
    \/ SourcePatterns
    \/ SourceFallback
    \/ SourceMatch
    \/ SourceMatchNormalized

SpecSource == InitSource /\ [][NextSource]_vars

(***************************************************************************)
(* Specification of one call of extract_key_terms_and_claims               *)
(***************************************************************************)
\* lines of the longest reply
MaxLines == 3

\* lines of a reply: the two headers, bullets, and lines that are neither
ReplyLines ==
    { CLAIMS_HEADER,
      TERMS_HEADER,
      <<"-"," ","A","c","m","e"," ","l","i","e","d">>,
      <<" "," ","-"," "," ","A","c","m","e"," ">>,
      <<"A","c","m","e"," ","l","i","e","d">>,
      <<"-","A","c","m","e">>,
      <<"c","l","a","i","m","s",":">> }

InitExtraction ==
    /\ pc = "call"
    /\ \/ args = [function |-> "extract_key_terms_and_claims",
                  outcome |-> [kind |-> "raised", content |-> << >>]]
       \/ \E n \in 0..MaxLines : \E content \in [1..n -> ReplyLines] :
              args = [function |-> "extract_key_terms_and_claims",
                      outcome |-> [kind |-> "answer", content |-> content]]
    /\ returned = NoResult
    /\ archive = << >>
    /\ request = NoRequest
    /\ pf_future = NotSubmitted
    /\ google_future = NotSubmitted
    /\ sources_data = << >>
    /\ consensus = NoReport
    /\ rating = NoneStr
    /\ score = NoneScore
    /\ _openai_client = NoClient
    /\ callers = << >>

\* claim_extraction.py lines 45-71
ExtractKeyTermsAndClaims ==
    /\ pc = "call"
    /\ returned' = [done |-> TRUE,
                    value |-> extract_key_terms_and_claims(args.outcome).value]
    /\ pc' = "return"
    /\ UNCHANGED << args, rating, score, sources_data, consensus, request, archive,
                    pf_future, google_future, _openai_client, callers >>

NextExtraction == ExtractKeyTermsAndClaims

SpecExtraction == InitExtraction /\ [][NextExtraction]_vars

(***************************************************************************)
(* services/clients.py: get_openai called by several threads of one        *)
(* process (the archive task of every request under way calls it through   *)
(* embed_text).  A thread can be preempted between reading the global,     *)
(* constructing the client, storing it and reading it again for the        *)
(* return.  get_anthropic has the same shape.                              *)
(***************************************************************************)
\* threads calling get_openai
MaxCallers == 3

\* a caller at `at`, having constructed `made` and returned `result`
Caller(at, made, result) == [pc |-> at, made |-> made, result |-> result]

InitClients ==
    /\ pc = "serving"
    /\ _openai_client = NoClient
    /\ callers = [c \in 1..MaxCallers |-> Caller("call", NoClient, NoClient)]
    /\ args = NoArgs
    /\ returned = NoResult
    /\ archive = << >>
    /\ request = NoRequest
    /\ pf_future = NotSubmitted
    /\ google_future = NotSubmitted
    /\ sources_data = << >>
    /\ consensus = NoReport
    /\ rating = NoneStr
    /\ score = NoneScore

\* clients.py line 11: if _openai_client is None
ClientCheck ==
    /\ \E c \in 1..MaxCallers :
           /\ callers[c].pc = "call"
           /\ callers' = [callers EXCEPT ![c].pc =
                              IF _openai_client = NoClient THEN "construct" ELSE "return"]
    /\ UNCHANGED << pc, rating, score, sources_data, consensus, request, archive,
                    pf_future, google_future, args, returned, _openai_client >>

\* clients.py line 12, right-hand side: OpenAI(...) makes a new client, which
\* the model names after the caller
ClientConstruct ==
    /\ \E c \in 1..MaxCallers :
           /\ callers[c].pc = "construct"
           /\ callers' = [callers EXCEPT ![c].pc = "assign", ![c].made = c]
    /\ UNCHANGED << pc, rating, score, sources_data, consensus, request, archive,
                    pf_future, google_future, args, returned, _openai_client >>

\* clients.py line 12: the assignment to the global
ClientAssign ==
    /\ \E c \in 1..MaxCallers :
           /\ callers[c].pc = "assign"
           /\ _openai_client' = callers[c].made
           /\ callers' = [callers EXCEPT ![c].pc = "return"]
    /\ UNCHANGED << pc, rating, score, sources_data, consensus, request, archive,
                    pf_future, google_future, args, returned >>

\* clients.py line 13: return _openai_client
ClientReturn ==
    /\ \E c \in 1..MaxCallers :
           /\ callers[c].pc = "return"
           /\ callers' = [callers EXCEPT ![c].pc = "done", ![c].result = _openai_client]
    /\ UNCHANGED << pc, rating, score, sources_data, consensus, request, archive,
                    pf_future, google_future, args, returned, _openai_client >>

NextClients ==
    \/ ClientCheck
    \/ ClientConstruct
    \/ ClientAssign
    \/ ClientReturn

SpecClients == InitClients /\ [][NextClients]_vars

(***************************************************************************)
(* Properties of standardize_rating (checked under SpecRatings)            *)
(***************************************************************************)
\* the raw rating r as the claim normalises it: None is the empty string, else
\* lowercased, trimmed, with '!', '?' and '.' removed
ClaimNormalized(r) ==
    IF r = NoneStr THEN << >>
    ELSE SelectSeq(Strip(Lower(r)), LAMBDA ch : ch \notin { "!", "?", "." })

\* the table items whose key occurs in the string n
ClaimKeysPresent(n) == { i \in 1..Len(MergedMap) : Contains(MergedMap[i].key, n) }

MOSTLY_FALSE == <<"M","o","s","t","l","y"," ","F","a","l","s","e">>
GIBBERISH    == <<"z","z","z","-","u","n","r","a","t","e","d","-","z","z","z">>

\* C1: standardize_rating returns None exactly when the normalised rating
\* contains no key of either table; otherwise it returns an integer in 0..5 that
\* is the table value of a key the rating contains.  'Mostly False' gives 2 and
\* 'zzz-unrated-zzz' gives None.
C1_NoneIffNoKeyPresent ==
    pc = "return" =>
        LET normalized == ClaimNormalized(rating)
            present    == ClaimKeysPresent(normalized)
        IN  /\ score = NoneScore <=> present = {}
            /\ score # NoneScore =>
                  /\ score \in 0..5
                  /\ \E i \in present : MergedMap[i].value = score
            /\ rating = MOSTLY_FALSE => score = 2
            /\ rating = GIBBERISH => score = NoneScore

\* C1 witness: 'Mostly False' has been standardized to 2
C1_Witness == pc = "return" /\ rating = MOSTLY_FALSE /\ score = 2

\* C2: standardize_rating applied to a table key alone returns that key's own
\* table value ('mostly true' 4, 'half true' 3, 'incorrect' 1, 'unsupported' 1,
\* 'partly false' 3, ...).
C2_KeyAloneGivesOwnValue ==
    pc = "return" =>
        \A i \in 1..Len(MergedMap) : rating = MergedMap[i].key => score = MergedMap[i].value

(***************************************************************************)
(* Properties of analyze_consensus (checked under SpecConsensus)           *)
(***************************************************************************)
\* the scorable results of the input, in group-then-result order, and their scores
ScorableResults ==
    SelectSeq(FlattenResults(sources_data), LAMBDA res : RatingScore(res.rating) # NoneScore)

InputScores == [i \in 1..Len(ScorableResults) |-> RatingScore(ScorableResults[i].rating)]

\* the call has returned on an input with at least one scorable rating
Scored == pc = "return" /\ InputScores # << >>

\* one score per distinct publisher, as the report lists them
PublisherScores ==
    [i \in 1..Len(consensus.source_ratings) |-> consensus.source_ratings[i].value]

\* avg is the mean of xs
IsMeanOf(avg, xs) == avg.num * Len(xs) = SumSeq(xs) * avg.den

\* n^3 times the population variance of xs: the sum of the (n * x - sum)^2
CubedVariance(xs) ==
    LET n == Len(xs)
        t == SumSeq(xs)
    IN  SumSeq([i \in 1..n |-> (n * xs[i] - t) * (n * xs[i] - t)])

\* level is max(0, 1 - std/2.5) for std the population standard deviation of xs:
\* (1 - level)^2 = min(1, 4 * variance / 25)
IsLevelOf(level, xs) ==
    LET n  == Len(xs)
        wn == 4 * CubedVariance(xs)
        wd == 25 * n * n * n
        w  == level.one_minus_sqrt
    IN  IF wn > wd THEN w.num = w.den ELSE w.num * wd = wn * w.den

C4_ConsensusLevelInUnitInterval ==
    Scored =>
        LET w == consensus.consensus_level.one_minus_sqrt
            n == Len(InputScores)
        IN  /\ IsLevelOf(consensus.consensus_level, InputScores)
            /\ 0 <= w.num /\ w.num <= w.den
            /\ (\A i \in 1..n : InputScores[i] = InputScores[1]) =>
                   consensus.consensus_level = RealOne
            /\ 4 * CubedVariance(InputScores) <= 25 * n * n * n

\* C4 witness: scores 0 and 5 give std 2.5 and consensus_level exactly 0
C4_Witness ==
    /\ pc = "return"
    /\ sources_data = Grouped(EXAMPLE_SPLIT, << 1, 2 >>)
    /\ consensus.consensus_level = RealZero
    /\ consensus.agreement = "Significant disagreement"

\* C5: the agreement label follows consensus_level with strict thresholds:
\* Strong iff > 0.8, Moderate iff in (0.6, 0.8], Some iff in (0.4, 0.6],
\* Significant iff <= 0.4; exactly one of the four labels is produced.
\* (consensus_level > t iff (1 - level)^2 < (1 - t)^2: 1/25, 4/25, 9/25.)
C5_AgreementByStrictThresholds ==
    Scored =>
        LET w    == consensus.consensus_level.one_minus_sqrt
            gt80 == 25 * w.num < w.den
            gt60 == 25 * w.num < 4 * w.den
            gt40 == 25 * w.num < 9 * w.den
        IN  /\ consensus.agreement = "Strong consensus" <=> gt80
            /\ consensus.agreement = "Moderate agreement" <=> (~ gt80 /\ gt60)
            /\ consensus.agreement = "Some disagreement" <=> (~ gt60 /\ gt40)
            /\ consensus.agreement = "Significant disagreement" <=> ~ gt40
            /\ consensus.agreement \in { "Strong consensus", "Moderate agreement",
                                         "Some disagreement", "Significant disagreement" }

\* C5 witness: scores 0 and 1 give consensus_level exactly 0.8, labelled Moderate
C5_Witness ==
    /\ Scored
    /\ consensus.consensus_level.one_minus_sqrt = [num |-> 1, den |-> 25]
    /\ consensus.agreement = "Moderate agreement"

\* the outliers list names exactly the publishers of source_ratings whose score
\* differs from average_rating by strictly more than 1.5, each once
OutliersAreTheFarPublishers ==
    LET sr  == consensus.source_ratings
        avg == consensus.average_rating
        far == { i \in 1..Len(sr) : 2 * Abs(sr[i].value * avg.den - avg.num) > 3 * avg.den }
        out == consensus.outliers
    IN  /\ { out[i] : i \in 1..Len(out) } = { OutlierText(sr[i].key, sr[i].value) : i \in far }
        /\ Len(out) = Cardinality(far)

TEXT_A5 == << "A", " ", "(", "5", ")" >>
TEXT_B5 == << "B", " ", "(", "5", ")" >>
TEXT_C0 == << "C", " ", "(", "0", ")" >>

\* C6 (as claimed): outliers names exactly the publishers whose score differs
\* from average_rating by strictly more than 1.5, each at most once; for A = 5,
\* B = 5, C = 0 the mean is 10/3, C is listed and A and B are not.
C6_OutliersExampleOnlyC ==
    Scored =>
        /\ OutliersAreTheFarPublishers
        /\ FlattenResults(sources_data) = EXAMPLE_ABC =>
               /\ consensus.average_rating = [num |-> 10, den |-> 3]
               /\ consensus.outliers = << TEXT_C0 >>

\* C6 (amended): outliers names exactly the publishers whose score differs from
\* average_rating by strictly more than 1.5, each at most once; for A = 5,
\* B = 5, C = 0 the mean is 10/3 and all three are listed (|5 - 10/3| = 5/3).
C6_OutliersBeyondDelta ==
    Scored =>
        /\ OutliersAreTheFarPublishers
        /\ FlattenResults(sources_data) = EXAMPLE_ABC =>
               /\ consensus.average_rating = [num |-> 10, den |-> 3]
               /\ consensus.outliers = << TEXT_A5, TEXT_B5, TEXT_C0 >>

\* C6 witness: the A = 5, B = 5, C = 0 example has returned its outliers
C6_Witness ==
    /\ pc = "return"
    /\ sources_data = Grouped(EXAMPLE_ABC, << 3 >>)
    /\ Len(consensus.outliers) = 3

\* the publisher name of a result, as the claim gives it
ClaimName(res) ==
    IF res.publisher # NoneStr /\ res.publisher # << >> THEN res.publisher
    ELSE IF res.source # NoneStr /\ res.source # << >> THEN res.source
    ELSE << "U", "n", "k", "n", "o", "w", "n" >>

\* C7: with a scorable rating, source_ratings has one entry per distinct
\* publisher name (publisher, else source, else 'Unknown') with a scorable
\* result, valued by that publisher's last scorable result; source_count is
\* the number of entries; an unscorable result contributes to none of
\* source_ratings, source_count and the average.
C7_SourceRatingsLastWins ==
    Scored =>
        LET scor  == ScorableResults
            names == { ClaimName(scor[i]) : i \in 1..Len(scor) }
            sr    == consensus.source_ratings
            avg   == consensus.average_rating
        IN  /\ { sr[k].key : k \in 1..Len(sr) } = names
            /\ \A k, l \in 1..Len(sr) : sr[k].key = sr[l].key => k = l
            /\ \A k \in 1..Len(sr) :
                   LET mine == { i \in 1..Len(scor) : ClaimName(scor[i]) = sr[k].key }
                       last == CHOOSE i \in mine : \A j \in mine : j <= i
                   IN  sr[k].value = RatingScore(scor[last].rating)
            /\ consensus.source_count = Len(sr)
            /\ consensus.source_count = Cardinality(names)
            /\ avg.num * Len(scor) = SumSeq(InputScores) * avg.den

\* C7 witness: a publisher with two scorable results of different scores, next
\* to an unscorable result
C7_Witness ==
    /\ Scored
    /\ \E i, j \in 1..Len(ScorableResults) :
          /\ i < j
          /\ ClaimName(ScorableResults[i]) = ClaimName(ScorableResults[j])
          /\ InputScores[i] # InputScores[j]
    /\ Len(FlattenResults(sources_data)) > Len(ScorableResults)
    /\ consensus.source_count = 1

\* C8: analyze_consensus([]) returns consensus_level 0, average_rating None,
\* agreement 'No data', no outliers and source_count 0.
C8_EmptyInputNoData ==
    (pc = "return" /\ sources_data = << >>) =>
        consensus = [consensus_level |-> RealZero, average_rating |-> NoneFloat,
                     agreement |-> "No data", outliers |-> << >>, source_count |-> 0]

\* C8 witness: the call on [] has returned 'No data'
C8_Witness == pc = "return" /\ sources_data = << >> /\ consensus.agreement = "No data"

\* C9: for a non-empty group list none of whose ratings is scorable,
\* analyze_consensus returns agreement 'No standardizable ratings',
\* consensus_level 0, average_rating None, no outliers and source_count the
\* number of groups passed in.
C9_NoScorableRatings ==
    (pc = "return" /\ sources_data # << >> /\ InputScores = << >>) =>
        consensus = [consensus_level |-> RealZero, average_rating |-> NoneFloat,
                     agreement |-> "No standardizable ratings", outliers |-> << >>,
                     source_count |-> Len(sources_data)]

\* C9 witness: two groups holding three unscorable results are counted as 2
C9_Witness ==
    /\ pc = "return"
    /\ Len(sources_data) = 2
    /\ Len(FlattenResults(sources_data)) = 3
    /\ InputScores = << >>
    /\ consensus.source_count = 2

(***************************************************************************)
(* Properties of get_multi_source_analysis (checked under Spec)            *)
(***************************************************************************)
\* get_multi_source_analysis has returned (sources, consensus)
Returned == pc = "return" /\ pf_future.pc = "done" /\ google_future.pc = "done"

\* the names of the groups returned, in order
ReturnedNames == [i \in 1..Len(sources_data) |-> sources_data[i].source_name]

\* the external results of the request whose publisher is / is not PolitiFact
ExternalFrom(is_pf) ==
    SelectSeq(google_future.value,
              LAMBDA r : (Strip(Lower(OrEmpty(r.publisher))) = POLITIFACT_LOWER) = is_pf)

\* C10 as stated: every source group that get_multi_source_analysis returns
\* has at least one result, whatever the archive and the external search gave.
C10_NoEmptyGroupReturned ==
    Returned => \A i \in 1..Len(sources_data) : sources_data[i].results # << >>

\* C10, amended: the archive group is always returned, first, with whatever
\* the archive search gave, zero results included; each of the two external
\* partitions is returned exactly when it has at least one result, so every
\* group after the first has at least one result.
C10_OnlyArchiveGroupMayBeEmpty ==
    Returned =>
        /\ Len(sources_data) >= 1
        /\ sources_data[1] = pf_future.value
        /\ sources_data[1].source_name = GROUP_NAMES[1]
        /\ \A i \in 2..Len(sources_data) : sources_data[i].results # << >>
        /\ ReturnedNames =
               << GROUP_NAMES[1] >>
               \o (IF ExternalFrom(TRUE) # << >> THEN << GROUP_NAMES[2] >> ELSE << >>)
               \o (IF ExternalFrom(FALSE) # << >> THEN << GROUP_NAMES[3] >> ELSE << >>)

\* a request returns an archive group without results (every hit lacks a url)
\* and one external partition, the other one being empty and left out
C10_Witness ==
    /\ Returned
    /\ sources_data[1].results = << >>
    /\ ReturnedNames = << GROUP_NAMES[1], GROUP_NAMES[3] >>
    /\ google_future.value # << >>

\* the results of the returned group of that name, none if there is no such
\* group
GroupResults(name) ==
    IF \E i \in 1..Len(sources_data) : sources_data[i].source_name = name
    THEN (CHOOSE g \in { sources_data[i] : i \in 1..Len(sources_data) } :
              g.source_name = name).results
    ELSE << >>

\* C11: the returned list is the archive group, then the "Recent PolitiFact"
\* group if non-empty, then the "External Sources" group if non-empty, in that
\* order; the recent group holds exactly the external results whose trimmed,
\* lowercased publisher is "politifact", the external group exactly the
\* others, both in the order the external search returned them.
C11_GroupsInOrderPartitionExternal ==
    Returned =>
        LET recent == ExternalFrom(TRUE)
            others == ExternalFrom(FALSE)
        IN  /\ ReturnedNames =
                   << GROUP_NAMES[1] >>
                   \o (IF recent # << >> THEN << GROUP_NAMES[2] >> ELSE << >>)
                   \o (IF others # << >> THEN << GROUP_NAMES[3] >> ELSE << >>)
            /\ GroupResults(GROUP_NAMES[2]) = recent
            /\ GroupResults(GROUP_NAMES[3]) = others
            /\ Len(recent) + Len(others) = Len(google_future.value)

\* all three groups are returned, the recent group holding a result whose
\* publisher was received as " politifact "
C11_Witness ==
    /\ Returned
    /\ ReturnedNames = GROUP_NAMES
    /\ \E i \in 1..Len(sources_data[2].results) :
           sources_data[2].results[i].publisher # POLITIFACT_LOWER
    /\ Len(sources_data[3].results) >= 2

\* what search_politifact_db produced for the hits the index answered with
ArchiveGroupProduced == search_politifact_db(request.query, pf_future.hits, archive)

\* C12: when the external search yields no results (no API key, failed API
\* calls, or no relevant hit), get_multi_source_analysis returns exactly one
\* group, the archive group as search_politifact_db produced it: same name,
\* same results, same order.
C12_NoExternalResultsArchiveUnchanged ==
    (Returned /\ google_future.value = << >>) =>
        /\ Len(sources_data) = 1
        /\ sources_data[1] = ArchiveGroupProduced

\* with an API key, every API call failed or found nothing relevant, and the
\* archive group, of two results or of none, is all that is returned
C12_Witness ==
    /\ Returned
    /\ Truthy(request.google_api_key)
    /\ google_future.api_calls >= 1
    /\ google_future.value = << >>
    /\ sources_data = << ArchiveGroupProduced >>
    /\ Len(sources_data[1].results) \in { 0, 2 }

(***************************************************************************)
(* Properties of the two searches (checked under Spec)                     *)
(***************************************************************************)
\* the request has returned, and with it search_politifact_db
ArchiveSearched == Returned

\* the request has returned, and with it enhanced_google_factcheck_search,
\* after calling the API
ExternalSearched == Returned /\ google_future.api_calls >= 1

\* the list search_politifact_db de-duplicates: the keyword matches, then the
\* vector hits
ArchiveCandidates ==
    Boosted(request.query, archive, VectorResults(pf_future.hits, archive))

\* every url is non-empty and no two results share one
DistinctUrls(results) ==
    /\ \A i \in 1..Len(results) : results[i].url # << >> /\ results[i].url # NoneStr
    /\ \A i, j \in 1..Len(results) : i < j => results[i].url # results[j].url

FirstWithUrl(results, url) ==
    CHOOSE k \in 1..Len(results) :
        /\ results[k].url = url
        /\ \A m \in 1..(k - 1) : results[m].url # url

\* C14: the archive group returned by search_politifact_db never holds two
\* results with the same url nor a result with an empty url; of the candidates
\* sharing a url, the first in list order is the one kept.
C14_ArchiveUrlsDistinctFirstKept ==
    ArchiveSearched =>
        LET candidates == ArchiveCandidates
            results    == pf_future.value.results
        IN  /\ DistinctUrls(results)
            /\ \A i \in 1..Len(results) :
                   /\ \E k \in 1..Len(candidates) : candidates[k].url = results[i].url
                   /\ results[i] = candidates[FirstWithUrl(candidates, results[i].url)]
            /\ \A k \in 1..Len(candidates) :
                   (candidates[k].url # << >> /\ candidates[k].url # NoneStr)
                       => \E i \in 1..Len(results) : results[i].url = candidates[k].url

\* the candidates hold a keyword match and a vector hit for the same url, and
\* a hit without url: only the keyword match, the first of the two, is kept
C14_Witness ==
    /\ ArchiveSearched
    /\ \E j, k \in 1..Len(ArchiveCandidates) :
           /\ j < k
           /\ ArchiveCandidates[j].url = ArchiveCandidates[k].url
           /\ ArchiveCandidates[j] # ArchiveCandidates[k]
           /\ ArchiveCandidates[j].url # << >>
    /\ \E k \in 1..Len(ArchiveCandidates) : ArchiveCandidates[k].url = << >>
    /\ Len(pf_future.value.results) = 1
    /\ pf_future.value.results[1].source = KEYWORD_MATCH

(***************************************************************************)
(* Properties of the keyword boost (checked under SpecArchive)             *)
(***************************************************************************)
\* the tokens of the named query that are capitalized, longer than 3
\* characters and not in the stoplist; the other queries have none
ACME == <<"A","c","m","e">>
CORP == <<"C","o","r","p">>

ClaimKeywords(q) == IF q = QUERY_NAMED THEN << ACME, CORP >> ELSE << >>

\* the lowercased claim + " " + explanation of the row contains every keyword,
\* lowercased
ClaimRowMatches(row, keywords) ==
    \A i \in 1..Len(keywords) :
        Contains(Lower(keywords[i]), Lower(row.claim) \o << " " >> \o Lower(row.explanation))

\* the keyword matches among the candidates of the search, in list order
BoostedEntries ==
    SelectSeq(ArchiveCandidates, LAMBDA r : r.source = KEYWORD_MATCH)

\* C15: with a keyword extracted from the query, the keyword-boosted entries
\* are exactly the first up to 10 archive rows whose lowercased claim + " " +
\* explanation contains every keyword, each with similarity_score 0.99 (they
\* precede the vector hits, the last matching row first); a row missing a
\* keyword is never boosted; without a keyword nothing is boosted.
C15_BoostFirstTenRowsWithEveryKeyword ==
    pf_future.pc = "done" =>
        LET keywords == ClaimKeywords(request.query)
            matching == SelectSeq(archive, LAMBDA row : ClaimRowMatches(row, keywords))
            expected == IF keywords = << >> THEN << >>
                        ELSE SubSeq(matching, 1, IF Len(matching) < 10 THEN Len(matching) ELSE 10)
            boosted  == BoostedEntries
        IN  /\ Len(boosted) = Len(expected)
            /\ \A i \in 1..Len(boosted) :
                   LET row == expected[Len(expected) + 1 - i]
                   IN  /\ boosted[i].claim = row.claim
                       /\ boosted[i].url = row.url
                       /\ boosted[i].rating = row.verdict
                       /\ boosted[i].similarity_score = Rat(99, 100)
                       /\ ArchiveCandidates[i] = boosted[i]
            /\ \A i \in 1..Len(boosted) : ClaimRowMatches(
                   [claim |-> boosted[i].claim, explanation |-> boosted[i].explanation],
                   keywords)

\* eleven rows of a twelve-row archive contain both keywords: the first ten
\* are boosted; the eleventh, the only one with an explanation, is not, nor is
\* the row with one keyword only
C15_Witness ==
    /\ pf_future.pc = "done"
    /\ request.query = QUERY_NAMED
    /\ Len(archive) = 12
    /\ archive[12] = ROW_WON
    /\ archive[3] = ROW_PARTIAL
    /\ Len(BoostedEntries) = 10
    /\ \A i \in 1..10 : BoostedEntries[i].claim = ROW_LIED.claim

(***************************************************************************)
(* Properties of failures (checked under Spec)                             *)
(***************************************************************************)
\* C16: if the embedding call raises, search_politifact_db raises and
\* get_multi_source_analysis raises to its caller: the request never returns,
\* no list of groups and no consensus is produced, and once the other task has
\* ended the exception is what leaves the function.  A returned list always
\* starts with the group of an archive search that ran.
C16_EmbeddingFailureRaises ==
    /\ pf_future.pc = "raised" =>
           /\ pc \in { "gather_pf", "raised" }
           /\ sources_data = << >>
           /\ consensus = NoReport
           /\ (pc = "gather_pf" /\ google_future.pc = "done") => ENABLED GatherPfRaises
    /\ pc = "return" =>
           /\ pf_future.pc = "done"
           /\ sources_data[1] = ArchiveGroupProduced

\* the embedding call raised while the external search found results: the
\* request has raised and returned nothing
C16_Witness ==
    /\ pc = "raised"
    /\ pf_future.pc = "raised"
    /\ google_future.pc = "done"
    /\ google_future.value # << >>
    /\ sources_data = << >>

\* an API key that is set
SOME_KEY == <<"K","E","Y">>

\* C17: whatever the external task is about to be answered,
\* _search_google_factcheck_raw returns an empty list, raising nothing, when
\* the status is not 200, when the request raises and when the body is not
\* JSON, and an extraction that fails returns no claims and no terms; so
\* enhanced_google_factcheck_search never raises, and the only failure that
\* aborts get_multi_source_analysis is that of the archive search.
C17_ExternalFailuresNeverRaise ==
    /\ google_future.pc = "start" =>
           /\ \A outcome \in ApiOutcomes,
                  limit \in { CLAIM_RESULTS, TERM_RESULTS, MAX_RESULTS } :
                  LET call == _search_google_factcheck_raw(SOME_KEY, outcome, limit)
                  IN  /\ ~ call.raised
                      /\ outcome.kind \in { "status", "raised", "silent", "notjson" }
                             => call.value = << >>
           /\ \A outcome \in ExtractionOutcomes :
                  LET extraction == extract_key_terms_and_claims(outcome)
                  IN  /\ ~ extraction.raised
                      /\ outcome.kind = "raised" =>
                             extraction.value = [claims |-> << >>, terms |-> << >>]
    /\ google_future.pc # "raised"
    /\ pc = "raised" => pf_future.pc = "raised"

\* both extractions failed and the one API call, for the raw query, failed or
\* found nothing: the request has returned the archive group alone
C17_Witness ==
    /\ Returned
    /\ Truthy(request.google_api_key)
    /\ request.query = QUERY_NAMED
    /\ google_future.dyn_terms = _fallback_terms_from_query(request.query)
    /\ google_future.api_calls = 1
    /\ google_future.all_results = << >>
    /\ Len(sources_data) = 1

(***************************************************************************)
(* Properties of enhanced_google_factcheck_search (checked under Spec)     *)
(***************************************************************************)
\* `len(query) > 200` is what the claim calls a long query
SHORT_QUERY_MAX == 200

\* C18 as stated: for a query of at most 200 characters
\* enhanced_google_factcheck_search makes exactly one API call, for the raw
\* query, and does not call the claim/term extraction.
C18_ShortQueryOneCallNoExtraction ==
    (ExternalSearched /\ Len(request.query) <= SHORT_QUERY_MAX) =>
        /\ google_future.api_calls = 1
        /\ google_future.extract_calls = 0

\* C19 as stated: url de-duplication comes before the relevance filter, so
\* every result returned is the first of the merged results carrying its url.
C19_OnlyFirstOfUrlReturned ==
    ExternalSearched =>
        \A i \in 1..Len(google_future.value) :
            LET r == google_future.value[i]
            IN  r = google_future.all_results[FirstWithUrl(google_future.all_results, r.url)]

\* the term occurs in the lowercased claim text, publisher or url of the result
ClaimTermOccurs(term, r) ==
    \/ Contains(term, Lower(r.claim))
    \/ Contains(term, Lower(r.publisher))
    \/ Contains(term, Lower(r.url))

\* C20: every result returned by enhanced_google_factcheck_search contains a
\* dynamic term in its lowercased claim text, publisher or url, unless there is
\* no dynamic term, in which case no result is rejected for relevance; the
\* returned urls are non-empty and pairwise distinct and there are at most
\* max_results results.
C20_ReturnedRelevantDistinctCapped ==
    ExternalSearched =>
        LET results == google_future.value
            terms   == google_future.dyn_terms
        IN  /\ terms # << >> =>
                   \A i \in 1..Len(results) :
                       \E k \in 1..Len(terms) : ClaimTermOccurs(terms[k], results[i])
            /\ terms = << >> =>
                   results = Prefix(DedupByUrl(google_future.all_results, {}), 5)
            /\ \A k \in 1..Len(terms) : Len(terms[k]) >= 3 /\ terms[k] = Lower(terms[k])
            /\ DistinctUrls(results)
            /\ Len(results) <= 5

\* six relevant results with distinct urls were merged, with an irrelevant one:
\* five are returned
C20_Witness ==
    /\ ExternalSearched
    /\ google_future.dyn_terms # << >>
    /\ Len(google_future.value) = 5
    /\ Len(FilterResults(google_future.all_results, google_future.dyn_terms, {})) = 6
    /\ \E i \in 1..Len(google_future.all_results) :
           /\ google_future.all_results[i].url # << >>
           /\ \A k \in 1..Len(google_future.dyn_terms) :
                  ~ ClaimTermOccurs(google_future.dyn_terms[k], google_future.all_results[i])

C22_RequestEventuallyEnds == <>(pc \in { "return", "raised" })

\* a request returned the archive group alone although the key was set and
\* every sub-query was sent: no call to the service brought a result
C22_Witness ==
    /\ pc = "return"
    /\ Truthy(request.google_api_key)
    /\ google_future.pc = "done"
    /\ google_future.api_calls = SUBQUERY_MAX
    /\ google_future.all_results = << >>
    /\ ReturnedNames = << GROUP_NAMES[1] >>
    /\ sources_data[1] = pf_future.value

\* the call of get_source_statistics that has returned, if any
StatisticsReturned ==
    /\ returned.done
    /\ args.function = "get_source_statistics"

\* the archive with every verdict `from` replaced by `to`
Relabelled(metadata, from, to) ==
    [i \in 1..Len(metadata) |->
        IF metadata[i].verdict = from THEN [metadata[i] EXCEPT !.verdict = to]
        ELSE metadata[i]]

\* ---------------------------------------------------------------------------
\* C23  get_source_statistics counts 'barely-true' and 'mostly-false' alike:
\* replacing 'barely-true' by 'mostly-false' in the rows of a speaker leaves
\* the three percentages and the indicator unchanged.
C23_LegacyLabelCountedAsMostlyFalse ==
    (StatisticsReturned /\ returned.value # NoStatistics) =>
        LET other == get_source_statistics(args.source,
                         Relabelled(archive, "barely-true", "mostly-false"))
        IN  /\ other.false_percentage = returned.value.false_percentage
            /\ other.true_percentage = returned.value.true_percentage
            /\ other.mixed_percentage = returned.value.mixed_percentage
            /\ other.indicator = returned.value.indicator

\* the rows of the speaker asked for whose verdict is one of `labels`
RowsRated(labels) ==
    { i \in 1..Len(archive) :
        /\ archive[i].source = args.source
        /\ \E k \in 1..Len(labels) : archive[i].verdict = labels[k] }

\* ---------------------------------------------------------------------------
\* C25  For a speaker with rows the indicator is 'High False Rate' exactly
\* when false_percentage is above 50, otherwise 'High True Rate' exactly when
\* true_percentage is above 50, otherwise 'Mixed Record'; the false, true and
\* mixed rows are at most total_checks; a speaker without rows gets None.
C25_IndicatorByStrictMajority ==
    StatisticsReturned =>
        LET stats  == returned.value
            rows   == { i \in 1..Len(archive) : archive[i].source = args.source }
            falses == Cardinality(RowsRated(FALSE_RATINGS))
            trues  == Cardinality(RowsRated(TRUE_RATINGS))
            mixeds == Cardinality(RowsRated(MIXED_RATINGS))
        IN  IF ~ HasSourceColumn(archive) \/ rows = { } THEN stats = NoStatistics
            ELSE /\ stats # NoStatistics
                 /\ stats.total_checks = Cardinality(rows)
                 /\ stats.false_percentage = Rat(100 * falses, stats.total_checks)
                 /\ stats.true_percentage = Rat(100 * trues, stats.total_checks)
                 /\ stats.mixed_percentage = Rat(100 * mixeds, stats.total_checks)
                 /\ falses + trues + mixeds <= stats.total_checks
                 /\ stats.indicator = "High False Rate"
                        <=> 2 * falses > stats.total_checks
                 /\ stats.indicator = "High True Rate"
                        <=> (2 * falses <= stats.total_checks
                             /\ 2 * trues > stats.total_checks)
                 /\ stats.indicator = "Mixed Record"
                        <=> (2 * falses <= stats.total_checks
                             /\ 2 * trues <= stats.total_checks)

\* a speaker with exactly half the rows false and half true: a mixed record
C25_Witness ==
    /\ StatisticsReturned
    /\ returned.value # NoStatistics
    /\ returned.value.false_percentage = Rat(HIGH_RATE_ABOVE, 1)
    /\ returned.value.true_percentage = Rat(HIGH_RATE_ABOVE, 1)
    /\ returned.value.indicator = "Mixed Record"

\* ---------------------------------------------------------------------------
\* C26  No call of search_politifact_db, get_multi_source_analysis,
\* get_source_statistics or get_top_sources, in any sequence or interleaving,
\* changes the archive: no step of any of them does.
C26_ArchiveNeverChanges == [][archive' = archive]_vars

\* a search has returned a result from an archive of the greatest length,
\* which has a source column
C26_Witness ==
    /\ returned.done
    /\ args.function = "search_politifact_db"
    /\ returned.value.results # << >>
    /\ Len(archive) = MaxStatRows
    /\ HasSourceColumn(archive)
    /\ returned.value = search_politifact_db(QUERY_NAMED, args.hits, archive)

\* the members of the roster of the call
RosterMembers == { args.all_sources[i] : i \in 1..Len(args.all_sources) }

C27_NoUrlInTwoGroups ==
    Returned =>
        LET emitted == FlattenResults(sources_data)
        IN  \A i, j \in 1..Len(emitted) :
                (i < j /\ emitted[i].url # << >>) => emitted[i].url # emitted[j].url

\* ---------------------------------------------------------------------------
\* C28  In the archive group every keyword-boosted result precedes every
\* vector-search result, and of a boosted row and a vector hit with the same
\* url the boosted entry is the one kept.
C28_BoostedPrecedeVectorAndWin ==
    pf_future.pc = "done" =>
        LET results == pf_future.value.results
            vector  == VectorResults(pf_future.hits, archive)
            boosted == BoostedEntries
        IN  /\ \A i, j \in 1..Len(results) :
                   i < j => ~ (results[i].source = POLITIFACT
                               /\ results[j].source = KEYWORD_MATCH)
            /\ \A b \in 1..Len(boosted), v \in 1..Len(vector) :
                   (Truthy(boosted[b].url) /\ boosted[b].url = vector[v].url)
                       => \E i \in 1..Len(results) :
                              /\ results[i].url = boosted[b].url
                              /\ results[i].source = KEYWORD_MATCH
                              /\ results[i].similarity_score = BOOST_SIM

\* a keyword match is followed by a vector hit in the group, and another
\* vector hit gave way to the keyword match of its url
C28_Witness ==
    /\ pf_future.pc = "done"
    /\ \E i, j \in 1..Len(pf_future.value.results) :
           /\ i < j
           /\ pf_future.value.results[i].source = KEYWORD_MATCH
           /\ pf_future.value.results[j].source = POLITIFACT
    /\ \E v \in 1..Len(pf_future.hits) :
           /\ Truthy(archive[pf_future.hits[v].row].url)
           /\ \E b \in 1..Len(BoostedEntries) :
                  BoostedEntries[b].url = archive[pf_future.hits[v].row].url

\* the kind of the last header among the first n lines, NO_SECTION without one
RecentHeader(lines, n) ==
    LET headers == { j \in 1..n : \/ StartsWith(Strip(lines[j]), CLAIMS_HEADER)
                                  \/ StartsWith(Strip(lines[j]), TERMS_HEADER) }
        last    == CHOOSE j \in headers : \A k \in headers : k <= j
    IN  IF headers = { } THEN NO_SECTION
        ELSE IF StartsWith(Strip(lines[last]), CLAIMS_HEADER) THEN CLAIMS_SECTION
        ELSE TERMS_SECTION

\* the texts of the bullets of a section, in the order of the lines
BulletsUnder(lines, section) ==
    LET bullets == SelectSeq([i \in 1..Len(lines) |-> i],
                       LAMBDA i : /\ StartsWith(Strip(lines[i]), BULLET)
                                  /\ RecentHeader(lines, i) = section)
    IN  [k \in 1..Len(bullets) |->
            Strip(SubSeq(Strip(lines[bullets[k]]), 3, Len(Strip(lines[bullets[k]]))))]

\* ---------------------------------------------------------------------------
\* C29  extract_key_terms_and_claims keeps, line by line, the section of the
\* last header: a '- ' bullet goes to the claims exactly when that header was
\* 'CLAIMS:', to the terms exactly when it was 'SEARCH_TERMS:', and nowhere
\* before any header; every other line is ignored; a section that is missing
\* gives an empty list; a failing collaborator gives ([], []).
C29_BulletsFollowLastHeader ==
    (pc = "return" /\ args.function = "extract_key_terms_and_claims") =>
        IF args.outcome.kind = "raised"
        THEN returned.value = [claims |-> << >>, terms |-> << >>]
        ELSE LET lines == args.outcome.content
             IN  /\ returned.value.claims = BulletsUnder(lines, CLAIMS_SECTION)
                 /\ returned.value.terms = BulletsUnder(lines, TERMS_SECTION)
                 /\ (\A i \in 1..Len(lines) : ~ StartsWith(Strip(lines[i]), CLAIMS_HEADER))
                        => returned.value.claims = << >>
                 /\ (\A i \in 1..Len(lines) : ~ StartsWith(Strip(lines[i]), TERMS_HEADER))
                        => returned.value.terms = << >>

\* a bullet before any header was dropped, the bullet after 'CLAIMS:' kept
C29_Witness ==
    /\ pc = "return"
    /\ args.function = "extract_key_terms_and_claims"
    /\ args.outcome.kind = "answer"
    /\ Len(args.outcome.content) = 3
    /\ StartsWith(Strip(args.outcome.content[1]), BULLET)
    /\ args.outcome.content[2] = CLAIMS_HEADER
    /\ StartsWith(Strip(args.outcome.content[3]), BULLET)
    /\ Len(returned.value.claims) = 1
    /\ returned.value.terms = << >>

\* ---------------------------------------------------------------------------
\* C30  get_openai constructs at most one client per process: under any
\* interleaving of its callers the constructor runs at most once and every
\* call returns the same instance.
C30_OneClientPerProcess ==
    /\ Cardinality({ c \in DOMAIN callers : callers[c].made # NoClient }) <= 1
    /\ \A c, d \in DOMAIN callers :
           (callers[c].pc = "done" /\ callers[d].pc = "done")
               => callers[c].result = callers[d].result

====
